---- MODULE Spec2Model ----
(***************************************************************************)
(* KGL ontology registry and validation gateway.                           *)
(*                                                                         *)
(* Handles are TLA+ strings, so that the substring tests of the code       *)
(* (includes, split, endsWith, match) are computed character by character. *)
(* Glyphs are written as their code points ("U+25CE"): the module text is  *)
(* ASCII.                                                                  *)
(***************************************************************************)
EXTENDS Integers, Sequences, FiniteSets, TLC

VARIABLES
    loadStep,                   \* how far module initialisation has run
    KGL_TYPE_TAXONOMIES,        \* canonicalOntology.ts: the taxonomy array
    KGL_TYPE_TAXONOMIES_SET,    \* canonicalOntology.ts: its handle set
    KGL_COMPOUND_RELATIONSHIPS, \* canonicalOntology.ts: the compound array
    KGL_COMPOUND_HANDLES_SET,   \* canonicalOntology.ts: its handle set
    config,                     \* OntologyGatewayClass.config
    call                        \* the API call in progress and its outcome

vocab == <<KGL_TYPE_TAXONOMIES, KGL_TYPE_TAXONOMIES_SET,
           KGL_COMPOUND_RELATIONSHIPS, KGL_COMPOUND_HANDLES_SET>>
vars == <<loadStep, KGL_TYPE_TAXONOMIES, KGL_TYPE_TAXONOMIES_SET,
          KGL_COMPOUND_RELATIONSHIPS, KGL_COMPOUND_HANDLES_SET, config, call>>

----------------------------------------------------------------------------
(* String primitives of the host language.                                 *)

\* String.prototype.indexOf: the first position (1-based) of pat in s, 0 if none.
occurrences(s, pat) ==
    {i \in 1..(Len(s) - Len(pat) + 1) : SubSeq(s, i, i + Len(pat) - 1) = pat}

least(hits) == IF hits = {} THEN 0 ELSE CHOOSE i \in hits : \A j \in hits : i <= j

indexOf(s, pat) == least(occurrences(s, pat))

\* String.prototype.includes
includes(s, pat) == occurrences(s, pat) # {}

\* String.prototype.endsWith
endsWith(s, pat) ==
    /\ Len(s) >= Len(pat)
    /\ SubSeq(s, Len(s) - Len(pat) + 1, Len(s)) = pat

\* s.split(pat)[0]: the text before the first occurrence of pat (all of s if none).
splitAt(s, at) == IF at = 0 THEN s ELSE SubSeq(s, 1, at - 1)

splitHead(s, pat) == splitAt(s, indexOf(s, pat))

\* (s.match(/_/g) || []).length
countUnderscores(s) == Cardinality({i \in 1..Len(s) : SubSeq(s, i, i) = "_"})

UpperCase == "ABCDEFGHIJKLMNOPQRSTUVWXYZ"
LowerCase == "abcdefghijklmnopqrstuvwxyz"

lowerAt(c, at) == IF at = 0 THEN c ELSE SubSeq(LowerCase, at, at)

lowerChar(c) == lowerAt(c, indexOf(UpperCase, c))

\* String.prototype.toLowerCase (ASCII)
RECURSIVE toLowerCase(_)
toLowerCase(s) ==
    IF Len(s) = 0 THEN s
    ELSE lowerChar(SubSeq(s, 1, 1)) \o toLowerCase(SubSeq(s, 2, Len(s)))

----------------------------------------------------------------------------
(* 1. The canonical nodes.                                                 *)

N(h, n, g, c, e, d) ==
    [handle |-> h, name |-> n, kgl |-> g, category |-> c, validExtensions |-> e,
     description |-> d]

KGL_NODES == <<
    N("kompas", "Kompas", "U+2735", "Domain", <<>>,
      "Meta domain"),
    N("navigi", "Navigi", "U+2736", "Domain", <<>>,
      "Help-seeker access"),
    N("mareto", "Mareto", "U+2737", "Domain", <<>>,
      "Service delivery"),
    N("karto", "Karto", "U+2738", "Domain", <<>>,
      "Analysis and insight"),
    N("volto", "Volto", "U+2739", "Domain", <<>>,
      "Outcomes and value"),
    N("resource", "Resource", "U+25C9", "Central", <<>>,
      "Available assets, supports, funding, payments, money, financial resources, budgets"),
    N("person", "Person", "U+25CE", "Central", <<>>,
      "Individual being served, client, participant, beneficiary, user"),
    N("insight", "Insight", "U+2299", "Central", <<>>,
      "Analytical finding, pattern, discovery, learning"),
    N("outcome", "Outcome", "U+25EF", "Central", <<>>,
      "Result achieved, impact, benefit, change measured"),
    N("program", "Program", "U+25A3", "Context", <<>>,
      "Structured service offering, initiative container, funded program"),
    N("case", "Case", "U+25A0", "Context", <<>>,
      "Container for service journey, client file, episode of care"),
    N("story", "Story", "U+25A6", "Context", <<>>,
      "Narrative container, qualitative account"),
    N("purpose", "Purpose", "U+25A1", "Context", <<>>,
      "Strategic intent, mission, vision, why"),
    N("event", "Event", "U+29EB", "Content", <<>>,
      "Significant occurrence, milestone, appointment, session, transaction"),
    N("timeframe", "Timeframe", "U+27F2", "Content", <<>>,
      "Period, duration, schedule, date range"),
    N("organization", "Organization", "U+16B4", "Content", <<>>,
      "Agency, institution, provider, funder, partner"),
    N("geography", "Geography", "U+16AA", "Content", <<>>,
      "Location, address, region, territory, catchment"),
    N("action", "Action", "U+219F", "Content", <<>>,
      "General operation, step taken"),
    N("activity", "Activity", "U+21A5", "Content", <<>>,
      "Discrete tracked action, engagement, intervention unit"),
    N("service", "Service", "U+16BC", "Content", <<>>,
      "Delivered intervention, support type, offering"),
    N("task", "Task", "U+25AA", "Content", <<>>,
      "Discrete work item, to-do, checklist item"),
    N("project", "Project", "U+16B3", "Content", <<>>,
      "Program element, funded project, grant-funded work"),
    N("initiative", "Initiative", "U+142F", "Content", <<>>,
      "Strategic effort, campaign, reform"),
    N("need", "Need", "U+03EB", "Content", <<>>,
      "Requirement, gap, presenting issue, demand"),
    N("risk", "Risk", "U+03EA", "Content", <<>>,
      "Probability of harm, vulnerability, danger, hazard"),
    N("acuity", "Acuity", "U+22C1", "Content", <<>>,
      "Intensity, severity level, priority, urgency"),
    N("target", "Target", "U+273D", "Content", <<>>,
      "Specific objective, KPI, quota, benchmark"),
    N("goal", "Goal", "U+2739", "Content", <<>>,
      "Strategic objective, aim, aspiration"),
    N("driver", "Driver", "U+27F0", "Content", <<>>,
      "Causal force, root cause, contributing factor"),
    N("authority", "Authority", "U+2720", "Content", <<>>,
      "Decision-making power, mandate, jurisdiction"),
    N("issue", "Issue", "U+03E9", "Content", <<>>,
      "Problem, concern, barrier, blocker"),
    N("measurement", "Measurement", "U+27E1", "Content", <<>>,
      "Assessment, evaluation, score, rating"),
    N("indicator", "Indicator", "U+273C", "Content", <<>>,
      "Metric signal, KPI, measure definition"),
    N("record", "Record", "U+27E6", "Content", <<>>,
      "Database row or file, log entry"),
    N("model", "Model", "U+AA5C", "Content", <<>>,
      "Statistical logic, algorithm, prediction model"),
    N("data", "Data", "U+2316", "Content", <<>>,
      "Raw information, dataset, field"),
    N("artifact", "Artifact", "U+16A0", "Content", <<>>,
      "Produced output, report, document, deliverable"),
    N("complexity", "Complexity", "U+AA5D", "Content", <<>>,
      "Complexity measure, difficulty level"),
    N("type", "Type", "U+03E0", "Modifier", <<"status", "condition", "characteristic", "capacity", "limitation">>,
      "Classification (taxonomy only)"),
    N("status", "Status", "U+03FE", "Modifier", <<"condition", "characteristic", "role", "capacity", "limitation">>,
      "Phase or standing"),
    N("condition", "Condition", "U+03DF", "Modifier", <<"status", "characteristic", "role", "capacity", "limitation">>,
      "Temporary state"),
    N("characteristic", "Characteristic", "U+03E1", "Modifier", <<"status", "condition", "role", "capacity", "limitation">>,
      "Trait"),
    N("role", "Role", "U+2628", "Modifier", <<"status", "condition", "characteristic", "capacity", "limitation">>,
      "Functional relation"),
    N("capacity", "Capacity", "U+22C0", "Modifier", <<"status", "condition", "characteristic", "role", "limitation">>,
      "Ability or intensity"),
    N("limitation", "Limitation", "U+16BE", "Modifier", <<"status", "condition", "characteristic", "role", "capacity">>,
      "Constraint")
>>

Undefined == [undefined |-> TRUE]

MapSeq(s, F(_)) == [i \in 1..Len(s) |-> F(s[i])]
Range(s) == {s[i] : i \in 1..Len(s)}

isModifierNode(n) == n.category = "Modifier"
isDomainNode(n) == n.category = "Domain"
handleOf(n) == n.handle

CANONICAL_HANDLES == MapSeq(KGL_NODES, handleOf)
CANONICAL_NODES_SET == Range(CANONICAL_HANDLES)
MODIFIER_HANDLES == MapSeq(SelectSeq(KGL_NODES, isModifierNode), handleOf)
MODIFIER_HANDLES_SET == Range(MODIFIER_HANDLES)
DOMAIN_HANDLES == MapSeq(SelectSeq(KGL_NODES, isDomainNode), handleOf)
DOMAIN_HANDLES_SET == Range(DOMAIN_HANDLES)

\* KGL_NODES.find(n => n.handle === handle)
nodeAt(i) == IF i = 0 THEN Undefined ELSE KGL_NODES[i]

getNodeByHandle(handle) ==
    nodeAt(least({i \in 1..Len(KGL_NODES) : KGL_NODES[i].handle = handle}))

----------------------------------------------------------------------------
(* 2. Type taxonomies of the nodes.                                        *)

nodeTypeTaxonomy(node, typeModifierNode) ==
    [handle   |-> node.handle \o "_type",
     name     |-> node.name \o " Type",
     kgl      |-> node.kgl \o typeModifierNode.kgl,
     parent   |-> node.handle,
     category |-> node.category,
     description |-> node.description \o " classification"]

\* A node phase without the `continue` on the "type" node.
everyNode(node) == TRUE

notTypeNode(node) == node.handle # "type"

generateKGLTypeTaxonomies ==
    LET typeModifierNode == getNodeByHandle("type")
        mk(node) == nodeTypeTaxonomy(node, typeModifierNode)
    IN  IF typeModifierNode = Undefined THEN <<>>
        ELSE MapSeq(SelectSeq(KGL_NODES, notTypeNode), mk)

----------------------------------------------------------------------------
(* 3. Compound relationships.                                              *)

compoundOf(nodeA, nodeB, meaning) ==
    LET compoundHandle == nodeA.handle \o "_" \o nodeB.handle
    IN  [handleA |-> nodeA.handle, kglA |-> nodeA.kgl,
         handleB |-> nodeB.handle, kglB |-> nodeB.kgl,
         compound |-> compoundHandle,
         kglCompound |-> nodeA.kgl \o nodeB.kgl,
         typeLink |-> compoundHandle \o "-" \o compoundHandle \o "_type",
         semanticMeaning |-> meaning]

\* Mutant of notDomainNode: the Modifier nodes are left out of the pair
\* product as well.
notDomainNorModifierNode(n) ==
    n.handle \notin DOMAIN_HANDLES_SET /\ n.category # "Modifier"

notDomainNode(n) == n.handle \notin DOMAIN_HANDLES_SET

\* An inner loop that pairs nodeA only with the nodes declared after it.
pairRowLater(nodeA, nodes) ==
    LET at == least({i \in 1..Len(nodes) : nodes[i].handle = nodeA.handle})
        mk(nodeB) == compoundOf(nodeA, nodeB, nodeA.name \o " related to " \o nodeB.name)
    IN  MapSeq(SubSeq(nodes, at + 1, Len(nodes)), mk)

\* The inner loop of the pair product for one nodeA.
pairRow(nodeA, nodes) ==
    LET other(nodeB) == nodeA.handle # nodeB.handle
        mk(nodeB) == compoundOf(nodeA, nodeB, nodeA.name \o " related to " \o nodeB.name)
    IN  MapSeq(SelectSeq(nodes, other), mk)

RECURSIVE pairProduct(_, _, _)
pairProduct(i, nodes, compounds) ==
    IF i > Len(nodes) THEN compounds
    ELSE pairProduct(i + 1, nodes, compounds \o pairRow(nodes[i], nodes))

someCompound(compounds, compoundHandle) ==
    \E k \in 1..Len(compounds) : compounds[k].compound = compoundHandle

\* The inner loop of the modifier-on-modifier pass for one modA.
RECURSIVE extensionRow(_, _, _)
extensionRow(nodeA, j, compounds) ==
    IF j > Len(nodeA.validExtensions) THEN compounds
    ELSE LET modB == nodeA.validExtensions[j]
             nodeB == getNodeByHandle(modB)
         IN  IF nodeB = Undefined THEN extensionRow(nodeA, j + 1, compounds)
             ELSE IF someCompound(compounds, nodeA.handle \o "_" \o modB)
                  THEN extensionRow(nodeA, j + 1, compounds)
                  ELSE extensionRow(nodeA, j + 1, Append(compounds,
                           compoundOf(nodeA, nodeB, nodeB.name \o " of a " \o nodeA.name)))

RECURSIVE extensionPass(_, _)
extensionPass(i, compounds) ==
    IF i > Len(MODIFIER_HANDLES) THEN compounds
    ELSE LET nodeA == getNodeByHandle(MODIFIER_HANDLES[i])
         IN  IF nodeA = Undefined THEN extensionPass(i + 1, compounds)
             ELSE extensionPass(i + 1, extensionRow(nodeA, 1, compounds))

generateKGLCompoundRelationships ==
    LET nodes == SelectSeq(KGL_NODES, notDomainNode)
    IN  extensionPass(1, pairProduct(1, nodes, <<>>))

----------------------------------------------------------------------------
(* The extension of the taxonomy array with the compounds' taxonomies.     *)

\* A compound taxonomy filed under the compound's first node.
compoundTypeTaxonomyOfNode(cr, parentNode, typeModifierNode) ==
    [handle   |-> cr.compound \o "_type",
     name     |-> cr.semanticMeaning \o " Type",
     kgl      |-> cr.kglCompound \o typeModifierNode.kgl,
     parent   |-> cr.handleA,
     category |-> parentNode.category,
     description |-> "Classification for " \o cr.semanticMeaning]

compoundTypeTaxonomy(cr, parentNode, typeModifierNode) ==
    [handle   |-> cr.compound \o "_type",
     name     |-> cr.semanticMeaning \o " Type",
     kgl      |-> cr.kglCompound \o typeModifierNode.kgl,
     parent   |-> cr.compound,
     category |-> parentNode.category,
     description |-> "Classification for " \o cr.semanticMeaning]

\* An iteration that pushes the taxonomy and leaves the handle set as it was.
extendWithStaleSet(cr, st) ==
    LET typeHandle == cr.compound \o "_type"
        parentNode == getNodeByHandle(cr.handleA)
        typeModifierNode == getNodeByHandle("type")
    IN  IF typeHandle \in st.set THEN st
        ELSE IF parentNode = Undefined THEN st
        ELSE IF typeModifierNode = Undefined THEN st
        ELSE [list |-> Append(st.list, compoundTypeTaxonomy(cr, parentNode, typeModifierNode)),
              set  |-> st.set]

\* An iteration without the test of the handle set.
extendWithUnguarded(cr, st) ==
    LET typeHandle == cr.compound \o "_type"
        parentNode == getNodeByHandle(cr.handleA)
        typeModifierNode == getNodeByHandle("type")
    IN  IF parentNode = Undefined THEN st
        ELSE IF typeModifierNode = Undefined THEN st
        ELSE [list |-> Append(st.list, compoundTypeTaxonomy(cr, parentNode, typeModifierNode)),
              set  |-> st.set \cup {typeHandle}]

\* One iteration of KGL_COMPOUND_RELATIONSHIPS.forEach: st is the pair of the
\* taxonomy array and its handle set.
extendWith(cr, st) ==
    LET typeHandle == cr.compound \o "_type"
        parentNode == getNodeByHandle(cr.handleA)
        typeModifierNode == getNodeByHandle("type")
    IN  IF typeHandle \in st.set THEN st
        ELSE IF parentNode = Undefined THEN st
        ELSE IF typeModifierNode = Undefined THEN st
        ELSE [list |-> Append(st.list, compoundTypeTaxonomy(cr, parentNode, typeModifierNode)),
              set  |-> st.set \cup {typeHandle}]

\* The forEach loop over compounds[lo..hi], left to right. The range is halved,
\* and the left half is evaluated (its length is read) before the right half
\* starts, so that the evaluation depth stays logarithmic in the number of
\* compounds.
RECURSIVE extendLoop(_, _, _, _)
extendLoop(lo, hi, compounds, st) ==
    IF lo > hi THEN st
    ELSE IF lo = hi THEN extendWith(compounds[lo], st)
    ELSE LET mid == (lo + hi) \div 2
             left == extendLoop(lo, mid, compounds, st)
         IN  IF Len(left.list) >= 0
             THEN extendLoop(mid + 1, hi, compounds, left)
             ELSE left

extendTypeTaxonomies(compounds, list, set) ==
    extendLoop(1, Len(compounds), compounds, [list |-> list, set |-> set])

----------------------------------------------------------------------------
(* OntologyRegistry: handle classification and suggestions.                *)

\* The own keys of the `mappings` object literal of suggestAlternative.
mappings ==
    [client |-> "person", customer |-> "person", user |-> "person",
     staff |-> "person", worker |-> "person", employee |-> "person",
     participant |-> "person", beneficiary |-> "person",
     appointment |-> "event", meeting |-> "event", visit |-> "event",
     session |-> "event",
     agency |-> "organization", company |-> "organization",
     provider |-> "organization", partner |-> "organization",
     firm |-> "organization",
     plan |-> "goal", objective |-> "goal",
     job |-> "task", action_item |-> "task",
     note |-> "record", document |-> "artifact", file |-> "artifact",
     location |-> "geography", address |-> "geography",
     period |-> "timeframe", date |-> "timeframe",
     score |-> "measurement", metric |-> "indicator",
     assessment |-> "activity", referral |-> "activity",
     housing |-> "person_characteristic or person_need",
     health |-> "person_characteristic or person_condition",
     disability |-> "person_characteristic or person_limitation",
     income |-> "resource or person_characteristic",
     employment |-> "person_characteristic or person_activity"]

\* A property read on an object literal also finds what Object.prototype holds;
\* these are the inherited keys a lower-cased string can name, with the text
\* their (truthy) value has in a template literal.
inheritedMappings ==
    ("constructor" :> "function Object() { [native code] }") @@
    ("__proto__" :> "[object Object]")

\* for (const canonical of CANONICAL_HANDLES) if (lower.includes(canonical) || canonical.includes(lower))
partialMatches(lower) ==
    {i \in 1..Len(CANONICAL_HANDLES) :
        includes(lower, CANONICAL_HANDLES[i]) \/ includes(CANONICAL_HANDLES[i], lower)}

\* suggestAlternative after `lower` is computed
suggestFor(handle, lower, hits) ==
    IF lower \in DOMAIN mappings
    THEN "Map \"" \o handle \o "\" to canonical: " \o mappings[lower]
    ELSE IF lower \in DOMAIN inheritedMappings
    THEN "Map \"" \o handle \o "\" to canonical: " \o inheritedMappings[lower]
    ELSE IF hits # {}
    THEN "Consider using \"" \o CANONICAL_HANDLES[least(hits)]
             \o "\" or a compound like \"" \o CANONICAL_HANDLES[least(hits)] \o "_type\""
    ELSE "Review the 45 canonical nodes in KGL_NODES"

suggestLower(handle, lower) == suggestFor(handle, lower, partialMatches(lower))

suggestAlternative(handle) == suggestLower(handle, toLowerCase(handle))

\* A parent test that accepts canonical nodes only.
isNodeOnly(parentBase) == parentBase \in CANONICAL_NODES_SET

isNodeOrCompound(parentBase) ==
    parentBase \in CANONICAL_NODES_SET \/ parentBase \in KGL_COMPOUND_HANDLES_SET

isValidSubTaxonomyPattern(handle) ==
    IF ~includes(handle, "_type_") THEN FALSE
    ELSE isNodeOrCompound(splitHead(handle, "_type_"))

\* A classification that tries the "_type_" pattern before the exact matches.
\* Mutant of validateHandle: a compound followed by any further segment is
\* accepted as well.
validateHandleWithModifiers(handle) ==
    IF handle \in CANONICAL_NODES_SET
    THEN [isValid |-> TRUE, level |-> "L1", nodeType |-> getNodeByHandle(handle).category]
    ELSE IF \/ handle \in KGL_COMPOUND_HANDLES_SET
            \/ \E k \in 1..Len(handle) :
                   /\ SubSeq(handle, k, k) = "_"
                   /\ SubSeq(handle, 1, k - 1) \in KGL_COMPOUND_HANDLES_SET
    THEN [isValid |-> TRUE, level |-> "L2_compound"]
    ELSE IF handle \in KGL_TYPE_TAXONOMIES_SET
    THEN [isValid |-> TRUE, level |-> "L2_taxonomy"]
    ELSE IF isValidSubTaxonomyPattern(handle)
    THEN [isValid |-> TRUE, level |-> "L3_subtaxonomy"]
    ELSE [isValid |-> FALSE,
          error |-> "\"" \o handle \o "\" is not a canonical KGL handle",
          suggestion |-> suggestAlternative(handle)]

\* Mutant of validateHandle: the type-taxonomy set is consulted before the
\* compound set.
validateHandleTaxonomyFirst(handle) ==
    IF handle \in CANONICAL_NODES_SET
    THEN [isValid |-> TRUE, level |-> "L1", nodeType |-> getNodeByHandle(handle).category]
    ELSE IF handle \in KGL_TYPE_TAXONOMIES_SET
    THEN [isValid |-> TRUE, level |-> "L2_taxonomy"]
    ELSE IF handle \in KGL_COMPOUND_HANDLES_SET
    THEN [isValid |-> TRUE, level |-> "L2_compound"]
    ELSE IF isValidSubTaxonomyPattern(handle)
    THEN [isValid |-> TRUE, level |-> "L3_subtaxonomy"]
    ELSE [isValid |-> FALSE,
          error |-> "\"" \o handle \o "\" is not a canonical KGL handle",
          suggestion |-> suggestAlternative(handle)]

validateHandlePatternFirst(handle) ==
    IF isValidSubTaxonomyPattern(handle)
    THEN [isValid |-> TRUE, level |-> "L3_subtaxonomy"]
    ELSE IF handle \in CANONICAL_NODES_SET
    THEN [isValid |-> TRUE, level |-> "L1", nodeType |-> getNodeByHandle(handle).category]
    ELSE IF handle \in KGL_COMPOUND_HANDLES_SET
    THEN [isValid |-> TRUE, level |-> "L2_compound"]
    ELSE IF handle \in KGL_TYPE_TAXONOMIES_SET
    THEN [isValid |-> TRUE, level |-> "L2_taxonomy"]
    ELSE [isValid |-> FALSE,
          error |-> "\"" \o handle \o "\" is not a canonical KGL handle",
          suggestion |-> suggestAlternative(handle)]

\* A result that reports the node's display name as its type.
nameOf(node) == IF node = Undefined THEN Undefined ELSE node.name

\* node?.category
categoryOf(node) == IF node = Undefined THEN Undefined ELSE node.category

validateHandle(handle) ==
    IF handle \in CANONICAL_NODES_SET
    THEN [isValid |-> TRUE, level |-> "L1", nodeType |-> categoryOf(getNodeByHandle(handle))]
    ELSE IF handle \in KGL_COMPOUND_HANDLES_SET
    THEN [isValid |-> TRUE, level |-> "L2_compound"]
    ELSE IF handle \in KGL_TYPE_TAXONOMIES_SET
    THEN [isValid |-> TRUE, level |-> "L2_taxonomy"]
    ELSE IF isValidSubTaxonomyPattern(handle)
    THEN [isValid |-> TRUE, level |-> "L3_subtaxonomy"]
    ELSE [isValid |-> FALSE,
          error |-> "\"" \o handle \o "\" is not a canonical KGL handle",
          suggestion |-> suggestAlternative(handle)]

----------------------------------------------------------------------------
(* OntologyGateway: checkpoints.                                           *)

StrictnessLevels == {"strict", "warn", "report"}
PipelineStages == {"ingest", "extract", "map", "build", "export"}

handlesOf(items) == MapSeq(items, handleOf)

\* The R06 error of the map stage for one item; kind is "Module" or "Taxonomy".
mapError(kind, item) ==
    [ruleId |-> "R06",
     ruleName |-> "Canonical nodes only",
     message |-> kind \o " \"" \o item.handle \o "\" is not a canonical KGL handle",
     affectedHandle |-> item.handle,
     suggestion |-> validateHandle(item.handle).suggestion]

isInvalidItem(item) == ~validateHandle(item.handle).isValid

\* A map stage that goes through the taxonomies before the modules.
validateMapStageTaxonomiesFirst(modules, taxonomies) ==
    LET moduleError(m) == mapError("Module", m)
        taxonomyError(t) == mapError("Taxonomy", t)
    IN  [errors |-> MapSeq(SelectSeq(taxonomies, isInvalidItem), taxonomyError)
                    \o MapSeq(SelectSeq(modules, isInvalidItem), moduleError),
         warnings |-> <<>>]

\* case 'map' of validateCheckpoint
validateMapStage(modules, taxonomies) ==
    LET moduleError(m) == mapError("Module", m)
        taxonomyError(t) == mapError("Taxonomy", t)
    IN  [errors |-> MapSeq(SelectSeq(modules, isInvalidItem), moduleError)
                    \o MapSeq(SelectSeq(taxonomies, isInvalidItem), taxonomyError),
         warnings |-> <<>>]

\* Mutant of T01Error: the rule is named differently from the catalog.
T01ErrorRenamed(module) ==
    LET typeHandle == module.handle \o "_type"
    IN  [ruleId |-> "T01",
         ruleName |-> "Type taxonomy required",
         message |-> "Compound \"" \o module.handle \o "\" missing type taxonomy \""
                     \o typeHandle \o "\"",
         affectedHandle |-> module.handle,
         suggestion |-> "Create taxonomy module \"" \o typeHandle \o "\""]

T01Error(module) ==
    LET typeHandle == module.handle \o "_type"
    IN  [ruleId |-> "T01",
         ruleName |-> "Compound type taxonomy required",
         message |-> "Compound \"" \o module.handle \o "\" missing type taxonomy \""
                     \o typeHandle \o "\"",
         affectedHandle |-> module.handle,
         suggestion |-> "Create taxonomy module \"" \o typeHandle \o "\""]

DepthLimit == 6

T09Warning(taxonomy) ==
    LET depth == countUnderscores(taxonomy.handle)
    IN  [ruleId |-> "T09",
         message |-> "Taxonomy \"" \o taxonomy.handle \o "\" has depth " \o ToString(depth)
                     \o " (> 6). Consider flattening.",
         affectedHandle |-> taxonomy.handle]

\* A depth test that already warns at the limit.
tooDeepAtLimit(taxonomy) == countUnderscores(taxonomy.handle) >= DepthLimit

tooDeep(taxonomy) == countUnderscores(taxonomy.handle) > DepthLimit

\* A build stage whose T01 loop runs over the taxonomies as well.
validateBuildStageAllItems(modules, taxonomies) ==
    LET allHandles == Range(handlesOf(modules)) \cup Range(handlesOf(taxonomies))
        missesType(item) ==
            /\ includes(item.handle, "_")
            /\ ~endsWith(item.handle, "_type")
            /\ (item.handle \o "_type") \notin allHandles
    IN  [errors |-> MapSeq(SelectSeq(modules \o taxonomies, missesType), T01Error),
         warnings |-> MapSeq(SelectSeq(taxonomies, tooDeep), T09Warning)]

validateBuildStage(modules, taxonomies) ==
    LET allHandles == Range(handlesOf(modules)) \cup Range(handlesOf(taxonomies))
        missesType(module) ==
            /\ includes(module.handle, "_")
            /\ ~endsWith(module.handle, "_type")
            /\ (module.handle \o "_type") \notin allHandles
    IN  [errors |-> MapSeq(SelectSeq(modules, missesType), T01Error),
         warnings |-> MapSeq(SelectSeq(taxonomies, tooDeep), T09Warning)]

\* An export stage that repeats the structural rules of the build stage.
validateExportStageAsBuild(modules, taxonomies) == validateBuildStage(modules, taxonomies)

validateExportStage(modules, taxonomies) ==
    [errors |-> <<>>, warnings |-> <<>>]

\* The switch of validateCheckpoint: what the stage found and counted.
stageChecks(stage, modules, taxonomies) ==
    CASE stage = "ingest" ->
            [errors |-> <<>>, warnings |-> <<>>,
             itemsChecked |-> Len(modules) + Len(taxonomies)]
      [] stage = "extract" ->
            [errors |-> <<>>, warnings |-> <<>>, itemsChecked |-> Len(modules)]
      [] stage = "map" ->
            validateMapStage(modules, taxonomies)
                @@ [itemsChecked |-> Len(modules) + Len(taxonomies)]
      [] stage = "build" ->
            validateBuildStage(modules, taxonomies)
                @@ [itemsChecked |-> Len(modules) + Len(taxonomies)]
      [] stage = "export" ->
            validateExportStage(modules, taxonomies)
                @@ [itemsChecked |-> Len(modules) + Len(taxonomies)]

\* console.warn lines of one checkpoint under 'warn'
warnLines(stage, errors, warnings) ==
    LET line(error) == "  [" \o error.ruleId \o "] " \o error.message
    IN  <<"[OntologyGateway] " \o stage \o " stage: " \o ToString(Len(errors))
            \o " errors, " \o ToString(Len(warnings)) \o " warnings">>
        \o MapSeq(errors, line)

\* A checkpoint that also throws under 'warn'.
throwsOnWarn(passed, strictness) == ~passed /\ strictness \in {"strict", "warn"}

\* Does the checkpoint throw under this strictness?
throwsOn(passed, strictness) == ~passed /\ strictness = "strict"

\* Does the checkpoint log under this strictness?
logsOn(passed, strictness) == ~passed /\ strictness = "warn"

\* errors[0]?.message, as a template literal prints it
firstMessage(errors) == IF Len(errors) = 0 THEN "undefined" ELSE errors[1].message

\* The end of validateCheckpoint, after the switch: found is what the stage
\* found. The outcome is either a thrown Error (with its message) or a returned
\* CheckpointResult, with the lines written to the console.
applyStrictness(stage, found, passed, strictness) ==
    IF throwsOn(passed, strictness)
    THEN [kind |-> "thrown",
          message |-> "Validation failed at " \o stage \o " stage with "
                      \o ToString(Len(found.errors)) \o " errors. First error: "
                      \o firstMessage(found.errors),
          log |-> <<>>]
    ELSE [kind |-> "returned",
          result |-> [stage |-> stage,
                      passed |-> passed,
                      errors |-> found.errors,
                      warnings |-> found.warnings,
                      stats |-> [itemsChecked |-> found.itemsChecked,
                                 errorsFound |-> Len(found.errors),
                                 warningsFound |-> Len(found.warnings)]],
          log |-> IF logsOn(passed, strictness)
                  THEN warnLines(stage, found.errors, found.warnings) ELSE <<>>]

\* A pass/fail determination that counts the warnings too.
noFindings(found) == Len(found.errors) + Len(found.warnings) = 0

\* const passed = errors.length === 0
noErrors(found) == Len(found.errors) = 0

checkpointOutcome(stage, found, strictness) ==
    applyStrictness(stage, found, noErrors(found), strictness)

validateCheckpoint(stage, modules, taxonomies, strictness) ==
    checkpointOutcome(stage, stageChecks(stage, modules, taxonomies), strictness)

\* Mutant of AllStages: the build stage is run first.
AllStagesBuildFirst == <<"build", "map", "export">>

AllStages == <<"map", "build", "export">>

\* for (const error of result.errors) rulesChecked.add(error.ruleId), in insertion order
RECURSIVE addRuleIds(_, _, _)
addRuleIds(rulesChecked, errors, k) ==
    IF k > Len(errors) THEN rulesChecked
    ELSE addRuleIds(IF errors[k].ruleId \in Range(rulesChecked) THEN rulesChecked
                    ELSE Append(rulesChecked, errors[k].ruleId), errors, k + 1)

isPassed(c) == c.passed
isFailed(c) == ~c.passed

\* The return statement of validateAll; acc holds the locals of validateAll.
fullReport(acc) ==
    [kind |-> "returned",
     report |-> [isValid |-> acc.totalErrors = 0,
                 passed |-> Len(SelectSeq(acc.checkpoints, isPassed)),
                 failed |-> Len(SelectSeq(acc.checkpoints, isFailed)),
                 totalErrors |-> acc.totalErrors,
                 totalWarnings |-> acc.totalWarnings,
                 checkpoints |-> acc.checkpoints,
                 rulesChecked |-> acc.rulesChecked],
     log |-> acc.log]

\* The body of the loop of validateAll after the checkpoint returned result.
accumulate(acc, out) ==
    [checkpoints |-> Append(acc.checkpoints, out.result),
     totalErrors |-> acc.totalErrors + Len(out.result.errors),
     totalWarnings |-> acc.totalWarnings + Len(out.result.warnings),
     rulesChecked |-> addRuleIds(acc.rulesChecked, out.result.errors, 1),
     log |-> acc.log \o out.log]

\* The loop of validateAll from stage k on. A checkpoint that throws ends it:
\* the Error propagates to the caller of validateAll.
RECURSIVE validateAllLoop(_, _, _, _, _)
afterCheckpoint(k, modules, taxonomies, strictness, acc, out) ==
    IF out.kind = "thrown"
    THEN [kind |-> "thrown", message |-> out.message, log |-> acc.log \o out.log]
    ELSE validateAllLoop(k + 1, modules, taxonomies, strictness, accumulate(acc, out))

validateAllLoop(k, modules, taxonomies, strictness, acc) ==
    IF k > Len(AllStages) THEN fullReport(acc)
    ELSE afterCheckpoint(k, modules, taxonomies, strictness, acc,
             validateCheckpoint(AllStages[k], modules, taxonomies, strictness))

validateAll(modules, taxonomies, strictness) ==
    validateAllLoop(1, modules, taxonomies, strictness,
        [checkpoints |-> <<>>, totalErrors |-> 0, totalWarnings |-> 0,
         rulesChecked |-> <<>>, log |-> <<>>])

\* A merge in which the fields already configured win.
mergeKeepingOld(old, partial) ==
    [k \in DOMAIN old \cup DOMAIN partial |->
        IF k \in DOMAIN old THEN old[k] ELSE partial[k]]

\* { ...this.config, ...config }
mergeConfig(old, partial) ==
    [k \in DOMAIN old \cup DOMAIN partial |->
        IF k \in DOMAIN partial THEN partial[k] ELSE old[k]]

----------------------------------------------------------------------------
(* canonicalOntology.ts (canonicalData): the rule catalog, and              *)
(* RuleRegistry.ts: the registry built from it.  Of a rule the id, the      *)
(* category and the name are kept; the free-text fields (description,       *)
(* examples, errorIfViolated) are copied through by the code untouched.     *)

Rule(id, category, name) == [id |-> id, category |-> category, name |-> name]

KGL_RULES_DEFINITIONS == <<
    Rule("R01", "Semantic", "Semantic coherence"),
    Rule("R02", "Semantic", "Order determines meaning"),
    Rule("R03", "Structure", "All nodes get type taxonomy"),
    Rule("R04", "Structure", "No type-type"),
    Rule("R05", "Structure", "No node repetition"),
    Rule("R06", "Semantic", "Canonical nodes only"),
    Rule("R07", "Naming", "Hyphen notation for fields"),
    Rule("R08", "Naming", "Full compound naming"),
    Rule("R09", "Semantic", "All many-to-many"),
    Rule("R10", "Semantic", "Modifiers are standalone nodes"),
    Rule("R11", "Semantic", "Compounds are nodes"),
    Rule("R12", "Semantic", "Bidirectionality"),
    Rule("R13", "Naming", "Snake case convention"),
    Rule("R14", "Structure", "Relationship modifier inheritance"),
    Rule("R15", "Semantic", "Modifier scope follows compound"),
    Rule("R16", "Semantic", "Modifier ordering grammar"),
    Rule("T01", "Taxonomy", "Compound type taxonomy required"),
    Rule("T02", "Taxonomy", "Sub-type trigger"),
    Rule("T03", "Taxonomy", "Sub-type grammar"),
    Rule("T04", "Taxonomy", "Sub-type structure"),
    Rule("T05", "Taxonomy", "Sub-type reference"),
    Rule("T06", "Taxonomy", "Sub-type hierarchy"),
    Rule("T07", "Taxonomy", "Modifier taxonomy depth"),
    Rule("T08", "Taxonomy", "One semantic dimension"),
    Rule("T09", "Taxonomy", "Depth limit warning"),
    Rule("T10", "Taxonomy", "Path computation field"),
    Rule("M01", "Modifier", "No freeform modifier attributes"),
    Rule("M02", "Modifier", "Three-level modifier structure"),
    Rule("M03", "Modifier", "Multi-value support"),
    Rule("M04", "Modifier", "Modifier metadata"),
    Rule("S01", "Selection", "Spine first"),
    Rule("S02", "Selection", "Question test"),
    Rule("S03", "Selection", "Minimal compounds"),
    Rule("S04", "Selection", "Modifier justification"),
    Rule("S05", "Selection", "Taxonomy follows selection"),
    Rule("N01", "Normalization", "Normalization trigger"),
    Rule("N02", "Normalization", "Reference taxonomy required"),
    Rule("N03", "Normalization", "Mechanism metadata"),
    Rule("N04", "Normalization", "Calculated fields"),
    Rule("N05", "Normalization", "Comparability score"),
    Rule("N06", "Normalization", "Source preservation"),
    Rule("N07", "Normalization", "Jurisdiction reference")
>>

\* A JavaScript Map: the keys in insertion order and the value of each key.
EmptyMap == [keys |-> <<>>, get |-> <<>>]

mapHas(map, key) == \E i \in 1..Len(map.keys) : map.keys[i] = key

mapGet(map, key) == map.get[CHOOSE i \in 1..Len(map.keys) : map.keys[i] = key]

\* Setting a key that is already there replaces its value and keeps its place.
mapSet(map, key, value) ==
    IF mapHas(map, key)
    THEN [map EXCEPT !.get = [i \in 1..Len(map.keys) |->
                                IF map.keys[i] = key THEN value ELSE map.get[i]]]
    ELSE [keys |-> Append(map.keys, key), get |-> Append(map.get, value)]

\* The loop of loadRules from rule i on; a map that has just been set is
\* never empty, and testing that evaluates it before the next iteration.
RECURSIVE loadRulesFrom(_, _, _)
loadRulesFrom(rules, i, map) ==
    IF i > Len(rules) THEN map
    ELSE LET next == mapSet(map, rules[i].id, rules[i])
         IN  IF Len(next.keys) > 0 THEN loadRulesFrom(rules, i + 1, next) ELSE next

loadRules == loadRulesFrom(KGL_RULES_DEFINITIONS, 1, EmptyMap)

\* The registry is a singleton constructed when the module is imported.
rulesById == loadRules

RECURSIVE join(_, _)
join(list, separator) ==
    IF list = <<>> THEN ""
    ELSE IF Len(list) = 1 THEN list[1]
    ELSE list[1] \o separator \o join(Tail(list), separator)

notFoundMessage(ruleId) ==
    "Rule \"" \o ruleId \o "\" not found in KGL_RULES_DEFINITIONS. "
        \o "Valid rule IDs: " \o join(rulesById.keys, ", ")

\* Mutant of getRuleDefinition: an unknown id gives an empty value.
getRuleDefinitionOrUndefined(ruleId) ==
    IF ~mapHas(rulesById, ruleId)
    THEN [kind |-> "returned", result |-> Undefined]
    ELSE [kind |-> "returned", result |-> mapGet(rulesById, ruleId)]

getRuleDefinition(ruleId) ==
    IF ~mapHas(rulesById, ruleId)
    THEN [kind |-> "thrown", message |-> notFoundMessage(ruleId)]
    ELSE LET rule == mapGet(rulesById, ruleId)
         IN  [kind |-> "returned",
              result |-> [id |-> rule.id, name |-> rule.name,
                          category |-> rule.category]]

----------------------------------------------------------------------------
(* canonicalOntology.ts: node-to-modifier semantic compatibility.           *)

NODE_MODIFIER_COMPATIBILITY ==
    ("kompas" :> {"status", "characteristic", "risk", "capacity",
          "limitation", "target", "goal", "driver", "authority", "issue"}) @@
    ("navigi" :> {"status", "characteristic", "risk", "need", "capacity",
          "limitation", "target", "goal", "driver", "authority", "issue"}) @@
    ("mareto" :> {"status", "characteristic", "risk", "capacity",
          "limitation", "target", "goal", "driver", "authority", "issue"}) @@
    ("karto" :> {"status", "characteristic", "risk", "capacity",
          "limitation", "target", "goal", "driver", "authority", "issue"}) @@
    ("volto" :> {"status", "characteristic", "risk", "capacity",
          "limitation", "target", "goal", "driver", "authority", "issue"}) @@
    ("resource" :> {"status", "characteristic", "risk", "need", "capacity",
          "limitation", "target", "goal", "driver", "authority", "issue"}) @@
    ("person" :> {"status", "condition", "characteristic", "role",
          "acuity", "risk", "need", "capacity", "limitation", "target", "goal", "driver", "issue"}) @@
    ("insight" :> {"status", "characteristic", "risk", "limitation",
          "target", "goal", "driver", "issue"}) @@
    ("outcome" :> {"status", "characteristic", "risk", "limitation",
          "target", "goal", "issue"}) @@
    ("program" :> {"status", "characteristic", "risk", "need", "capacity",
          "limitation", "target", "goal", "driver", "authority", "issue"}) @@
    ("case" :> {"status", "condition", "characteristic", "acuity", "risk",
          "need", "capacity", "limitation", "issue"}) @@
    ("story" :> {"status", "characteristic", "risk", "limitation",
          "target", "goal", "driver", "issue"}) @@
    ("purpose" :> {"status", "characteristic", "risk", "capacity",
          "limitation", "target", "goal", "authority", "issue"}) @@
    ("event" :> {"status", "condition", "characteristic", "acuity", "risk",
          "limitation", "driver", "issue"}) @@
    ("timeframe" :> {"status", "characteristic", "limitation", "issue"}) @@
    ("organization" :> {"status", "characteristic", "role", "risk", "need",
          "capacity", "limitation", "target", "goal", "driver", "authority", "issue"}) @@
    ("geography" :> {"status", "characteristic", "risk", "need",
          "capacity", "limitation", "goal", "driver", "issue"}) @@
    ("action" :> {"status", "characteristic", "risk", "capacity",
          "limitation", "driver", "issue"}) @@
    ("activity" :> {"status", "characteristic", "risk", "capacity",
          "limitation", "driver", "issue"}) @@
    ("service" :> {"status", "characteristic", "risk", "capacity",
          "limitation", "target", "driver", "issue"}) @@
    ("task" :> {"status", "characteristic", "role", "risk", "capacity",
          "limitation", "authority", "issue"}) @@
    ("project" :> {"status", "characteristic", "risk", "need", "capacity",
          "limitation", "target", "goal", "driver", "authority", "issue"}) @@
    ("initiative" :> {"status", "characteristic", "risk", "need",
          "capacity", "limitation", "target", "goal", "driver", "authority", "issue"}) @@
    ("need" :> {"status", "characteristic", "risk", "capacity",
          "limitation", "target", "goal", "driver", "issue"}) @@
    ("risk" :> {"status", "characteristic", "capacity", "limitation",
          "driver", "issue"}) @@
    ("acuity" :> {"status", "characteristic", "risk", "limitation",
          "driver", "issue"}) @@
    ("target" :> {"status", "characteristic", "risk", "capacity",
          "limitation", "goal", "driver", "issue"}) @@
    ("goal" :> {"status", "characteristic", "risk", "capacity",
          "limitation", "target", "driver", "issue"}) @@
    ("driver" :> {"status", "characteristic", "risk", "capacity",
          "limitation", "issue"}) @@
    ("authority" :> {"status", "characteristic", "role", "risk",
          "capacity", "limitation", "driver", "issue"}) @@
    ("issue" :> {"status", "characteristic", "risk", "capacity",
          "limitation", "driver"}) @@
    ("indicator" :> {"status", "characteristic", "risk", "limitation",
          "driver", "issue"}) @@
    ("measurement" :> {"status", "characteristic", "risk", "limitation",
          "driver", "issue"}) @@
    ("record" :> {"status", "characteristic", "limitation", "issue"}) @@
    ("model" :> {"status", "characteristic", "risk", "capacity",
          "limitation", "driver", "issue"}) @@
    ("data" :> {"status", "characteristic", "limitation", "issue"}) @@
    ("artifact" :> {"status", "characteristic", "limitation", "issue"}) @@
    ("complexity" :> {"status", "characteristic", "risk", "limitation",
          "driver", "issue"})

\* The table is an object literal, so a property read on it also finds the
\* members of Object.prototype: functions, and for __proto__ the prototype
\* itself.  All of them are truthy and none has a method "has".
ObjectPrototypeKeys ==
    {"constructor", "__proto__", "toString", "toLocaleString", "valueOf",
     "hasOwnProperty", "isPrototypeOf", "propertyIsEnumerable",
     "__defineGetter__", "__defineSetter__",
     "__lookupGetter__", "__lookupSetter__"}

\* NODE_MODIFIER_COMPATIBILITY[nodeHandle]
validModifiersOf(nodeHandle) ==
    IF nodeHandle \in DOMAIN NODE_MODIFIER_COMPATIBILITY
    THEN [kind |-> "Set", members |-> NODE_MODIFIER_COMPATIBILITY[nodeHandle]]
    ELSE IF nodeHandle \in ObjectPrototypeKeys
    THEN [kind |-> "inherited"]
    ELSE [kind |-> "undefined"]

\* Mutant of isModifierValidForNode: the modifier's row is not consulted, any
\* row naming the modifier will do.
isModifierValidForSomeNode(nodeHandle, modifierHandle) ==
    [kind |-> "returned",
     value |-> /\ nodeHandle \in DOMAIN NODE_MODIFIER_COMPATIBILITY
               /\ \E n \in DOMAIN NODE_MODIFIER_COMPATIBILITY :
                      modifierHandle \in NODE_MODIFIER_COMPATIBILITY[n]]

isModifierValidForNode(nodeHandle, modifierHandle) ==
    LET validModifiers == validModifiersOf(nodeHandle)
    IN  IF validModifiers.kind = "undefined"
        THEN [kind |-> "returned", value |-> FALSE]
        ELSE IF validModifiers.kind = "Set"
        THEN [kind |-> "returned",
              value |-> modifierHandle \in validModifiers.members]
        ELSE [kind |-> "thrown",
              message |-> "TypeError: validModifiers.has is not a function"]

----------------------------------------------------------------------------
(* OntologyRegistry.ts: analyzeCompound; the gateway's validateHandles.     *)

\* KGL_COMPOUND_RELATIONSHIPS.find((c) => c.compound === handle)
findCompound(handle) ==
    LET hits == {k \in 1..Len(KGL_COMPOUND_RELATIONSHIPS) :
                    KGL_COMPOUND_RELATIONSHIPS[k].compound = handle}
    IN  IF hits = {} THEN Undefined ELSE KGL_COMPOUND_RELATIONSHIPS[least(hits)]

analyzeCompound(handle) ==
    LET compound == findCompound(handle)
    IN  IF compound = Undefined
        THEN IF ~includes(handle, "_")
             THEN [isValidCompound |-> FALSE,
                   error |-> "Not a valid compound format. Compounds must have format A_B."]
             ELSE [isValidCompound |-> FALSE,
                   error |-> "Compound \"" \o handle
                       \o "\" not found in generated compounds. Check that both component handles are canonical."]
        ELSE [isValidCompound |-> TRUE,
              handleA |-> compound.handleA, handleB |-> compound.handleB,
              glyphA |-> compound.kglA, glyphB |-> compound.kglB,
              semanticMeaning |-> compound.semanticMeaning,
              typeLink |-> compound.typeLink]

\* The loop of validateHandles from handle i on.
RECURSIVE validateHandlesFrom(_, _, _, _)
validateHandlesFrom(handles, i, valid, invalid) ==
    IF i > Len(handles) THEN [valid |-> valid, invalid |-> invalid]
    ELSE LET result == validateHandle(handles[i])
         IN  IF result.isValid
             THEN validateHandlesFrom(handles, i + 1, Append(valid, handles[i]), invalid)
             ELSE validateHandlesFrom(handles, i + 1, valid,
                      Append(invalid, [result EXCEPT !.error = handles[i] \o ": " \o @]))

validateHandles(handles) == validateHandlesFrom(handles, 1, <<>>, <<>>)

----------------------------------------------------------------------------
(* types.ts (the KGL enforcer): the reference table of glyphs and the       *)
(* reverse lookup built from it.  Glyphs are written as code points.        *)

V(handle, glyph, category) == [handle |-> handle, glyph |-> glyph, category |-> category]

\* The entries of the object literal, in the order Object.entries gives them.
KGL_V1_3_NODES == <<
    V("kompas", "U+2735", "Domain"),
    V("navigi", "U+2736", "Domain"),
    V("mareto", "U+2737", "Domain"),
    V("karto", "U+2738", "Domain"),
    V("volto", "U+2739", "Domain"),
    V("resource", "U+25C9", "Central"),
    V("person", "U+25CE", "Central"),
    V("insight", "U+2299", "Central"),
    V("outcome", "U+25EF", "Central"),
    V("program", "U+25A3", "Context"),
    V("case", "U+25A0", "Context"),
    V("story", "U+25A6", "Context"),
    V("purpose", "U+25A1", "Context"),
    V("event", "U+29EB", "Content-Temporal"),
    V("timeframe", "U+27F2", "Content-Temporal"),
    V("organization", "U+16B4", "Content-Temporal"),
    V("geography", "U+16AA", "Content-Temporal"),
    V("action", "U+219F", "Content-Operational"),
    V("activity", "U+21A5", "Content-Operational"),
    V("service", "U+16BC", "Content-Operational"),
    V("task", "U+25AA", "Content-Operational"),
    V("project", "U+16B3", "Content-Operational"),
    V("initiative", "U+142F", "Content-Operational"),
    V("need", "U+03EB", "Content-Dynamics"),
    V("risk", "U+03EA", "Content-Dynamics"),
    V("acuity", "U+22C1", "Content-Dynamics"),
    V("target", "U+273D", "Content-Dynamics"),
    V("goal", "U+2739", "Content-Dynamics"),
    V("driver", "U+27F0", "Content-Dynamics"),
    V("authority", "U+2720", "Content-Dynamics"),
    V("issue", "U+03E9", "Content-Dynamics"),
    V("measurement", "U+27E1", "Content-Data"),
    V("indicator", "U+273C", "Content-Data"),
    V("record", "U+27E6", "Content-Data"),
    V("model", "U+AA5C", "Content-Data"),
    V("data", "U+2316", "Content-Data"),
    V("artifact", "U+16A0", "Content-Data"),
    V("complexity", "U+AA5D", "Content-Data"),
    V("type", "U+03E0", "Modifier"),
    V("status", "U+03FE", "Modifier"),
    V("condition", "U+03DF", "Modifier"),
    V("characteristic", "U+03E1", "Modifier"),
    V("role", "U+2628", "Modifier"),
    V("capacity", "U+22C0", "Modifier"),
    V("limitation", "U+16BE", "Modifier")
>>

\* for (const [handle, node] of Object.entries(KGL_V1_3_NODES))
\*     GLYPH_TO_HANDLE[node.glyph] = handle
RECURSIVE glyphToHandleFrom(_, _, _)
glyphToHandleFrom(entries, i, map) ==
    IF i > Len(entries) THEN map
    ELSE LET next == mapSet(map, entries[i].glyph, entries[i].handle)
         IN  IF Len(next.keys) > 0 THEN glyphToHandleFrom(entries, i + 1, next) ELSE next

GLYPH_TO_HANDLE == glyphToHandleFrom(KGL_V1_3_NODES, 1, EmptyMap)

Null == "null"

\* KGL_V1_3_NODES[handle]?.glyph || null
getCorrectGlyph(handle) ==
    LET hits == {i \in 1..Len(KGL_V1_3_NODES) : KGL_V1_3_NODES[i].handle = handle}
    IN  IF hits = {} THEN Null ELSE KGL_V1_3_NODES[least(hits)].glyph

\* GLYPH_TO_HANDLE[glyph] || null; the table is a plain object, so the name
\* of a member of Object.prototype finds that member instead of a handle.
getCorrectHandle(glyph) ==
    IF mapHas(GLYPH_TO_HANDLE, glyph) THEN mapGet(GLYPH_TO_HANDLE, glyph)
    ELSE IF glyph \in ObjectPrototypeKeys THEN "[inherited " \o glyph \o "]"
    ELSE Null

----------------------------------------------------------------------------
(* canonicalOntology.ts: modifier-on-modifier compatibility, and its query  *)
(* in OntologyRegistry.ts.                                                  *)

\* node.category === 'Modifier' && node.validExtensions (a node without the
\* field has the empty list here)
hasExtensions(node) == node.category = "Modifier" /\ node.validExtensions # <<>>

\* The reduce over the filtered nodes: handle -> new Set(validExtensions)
MODIFIER_MODIFIER_COMPATIBILITY ==
    [handle \in {n.handle : n \in Range(SelectSeq(KGL_NODES, hasExtensions))} |->
        Range(getNodeByHandle(handle).validExtensions)]

isModifierOnModifierValid(baseModifier, extensionModifier) ==
    IF baseModifier \in DOMAIN MODIFIER_MODIFIER_COMPATIBILITY
    THEN [kind |-> "returned",
          value |-> extensionModifier \in MODIFIER_MODIFIER_COMPATIBILITY[baseModifier]]
    ELSE IF baseModifier \in ObjectPrototypeKeys
    THEN [kind |-> "thrown",
          message |-> "TypeError: validExtensions.has is not a function"]
    ELSE [kind |-> "returned", value |-> FALSE]

----------------------------------------------------------------------------
(* The inputs the calls are tried on.                                      *)

MaxSegments == 3
MaxItems == 2

\* Handle segments: a node, the "type" modifier, a Domain node, and a word that
\* is no node.
Segments == {"person", "type", "kompas", "gender"}

RECURSIVE SegmentHandles(_)
SegmentHandles(n) ==
    IF n = 1 THEN Segments
    ELSE {h \o "_" \o s : h \in SegmentHandles(n - 1), s \in Segments}

ExampleHandles ==
    {"characteristic", "person_characteristic", "characteristic_person",
     "person_characteristic_type", "person_characteristic_type_gender",
     "person_type_type_gender", "person_type_gender_type_x",
     "status_condition", "type_status",
     "_type_gender", "person_type_", "", "Client", "housing", "constructor",
     "persons", "xyz",
     "person_case_status", "person_condition_status", "case_event_status",
     "case_event_status_type", "person_case_type"}

HandlePool == UNION {SegmentHandles(n) : n \in 1..MaxSegments} \cup ExampleHandles

ModuleHandles == {"person", "client", "foo_bar", "foo_bar_type", "person_case"}
TaxonomyHandles == {"foo_bar_type", "person_type_a_b_c_d_e", "person_type_a_b_c_d_e_f"}

RECURSIVE ItemSeqs(_, _)
\* the sequences of at most n items with handles in pool
ItemSeqs(pool, n) ==
    IF n = 0 THEN {<<>>}
    ELSE ItemSeqs(pool, n - 1)
         \cup {Append(s, [handle |-> h]) : s \in {t \in ItemSeqs(pool, n - 1) : Len(t) = n - 1},
                                          h \in pool}

\* the (modules, taxonomies) pairs of at most MaxItems items in all
ItemInputs ==
    {in \in ItemSeqs(ModuleHandles, MaxItems) \X ItemSeqs(TaxonomyHandles, MaxItems) :
        Len(in[1]) + Len(in[2]) <= MaxItems}

PartialConfigs ==
    {[strictness |-> s] : s \in StrictnessLevels}
    \cup {[enabledCategories |-> <<"Naming">>, skipRules |-> <<"R06", "T01">>]}

\* Every id of the catalog, and ids that are not in it.
UnknownRuleIds == {"ZZ99", "CB01", "r06", "R6", "R06 ", ""}

RuleIds == {KGL_RULES_DEFINITIONS[i].id : i \in 1..Len(KGL_RULES_DEFINITIONS)}
               \cup UnknownRuleIds

\* Node arguments: every node handle, and strings that are no node handle.
NodeArguments ==
    {KGL_NODES[i].handle : i \in 1..Len(KGL_NODES)}
        \cup {"client", "Person", "", "constructor", "__proto__", "toString"}

\* Modifier arguments: every handle the table mentions, and two it does not.
ModifierArguments ==
    UNION {NODE_MODIFIER_COMPATIBILITY[n] : n \in DOMAIN NODE_MODIFIER_COMPATIBILITY}
        \cup {"type", "constructor"}

\* Handles for the operations that take a compound or a list of handles.
CompoundArguments ==
    {"person_case", "case_person", "type_status", "status_type",
     "kompas_person", "person_person", "person", "client", ""}

ListHandles == {"person", "person_case", "client", "foo_bar"}

HandleLists ==
    {<<>>} \cup {<<a>> : a \in ListHandles}
           \cup {<<a, b>> : a \in ListHandles, b \in ListHandles}

\* Glyph arguments: every glyph of the node list, and strings that are none.
GlyphArguments ==
    {KGL_NODES[i].kgl : i \in 1..Len(KGL_NODES)} \cup {"U+0041", "", "constructor"}

\* Base and extension arguments: the modifiers, and strings that are none.
BaseArguments == MODIFIER_HANDLES_SET \cup {"person", "kompas", "client", "", "constructor"}

ExtensionArguments == MODIFIER_HANDLES_SET \cup {"person", "client"}

NoCall == [op |-> "none"]

----------------------------------------------------------------------------
Init ==
    /\ loadStep = "start"
    /\ KGL_TYPE_TAXONOMIES = <<>>
    /\ KGL_TYPE_TAXONOMIES_SET = {}
    /\ KGL_COMPOUND_RELATIONSHIPS = <<>>
    /\ KGL_COMPOUND_HANDLES_SET = {}
    /\ config = [strictness |-> "report"]
    /\ call = NoCall

LoadTypeTaxonomies ==
    /\ loadStep = "start"
    /\ KGL_TYPE_TAXONOMIES' = generateKGLTypeTaxonomies
    /\ KGL_TYPE_TAXONOMIES_SET' = {KGL_TYPE_TAXONOMIES'[i].handle : i \in 1..Len(KGL_TYPE_TAXONOMIES')}
    /\ loadStep' = "types"
    /\ UNCHANGED <<KGL_COMPOUND_RELATIONSHIPS, KGL_COMPOUND_HANDLES_SET, config, call>>

LoadCompounds ==
    /\ loadStep = "types"
    /\ KGL_COMPOUND_RELATIONSHIPS' = generateKGLCompoundRelationships
    /\ KGL_COMPOUND_HANDLES_SET' = {KGL_COMPOUND_RELATIONSHIPS'[i].compound : i \in 1..Len(KGL_COMPOUND_RELATIONSHIPS')}
    /\ loadStep' = "compounds"
    /\ UNCHANGED <<KGL_TYPE_TAXONOMIES, KGL_TYPE_TAXONOMIES_SET, config, call>>

ExtendTypeTaxonomies ==
    /\ loadStep = "compounds"
    /\ LET st == extendTypeTaxonomies(KGL_COMPOUND_RELATIONSHIPS, KGL_TYPE_TAXONOMIES, KGL_TYPE_TAXONOMIES_SET)
       IN  /\ KGL_TYPE_TAXONOMIES' = st.list
           /\ KGL_TYPE_TAXONOMIES_SET' = st.set
    /\ loadStep' = "ready"
    /\ UNCHANGED <<KGL_COMPOUND_RELATIONSHIPS, KGL_COMPOUND_HANDLES_SET, config, call>>

\* An API call needs the modules loaded and, the calls being synchronous, no
\* other call in progress.
Idle == loadStep = "ready" /\ call = NoCall

Configure(partial) ==
    /\ Idle
    /\ config' = mergeConfig(config, partial)
    /\ call' = [op |-> "configure", partial |-> partial]
    /\ UNCHANGED <<loadStep, vocab>>

ValidateHandle(handle) ==
    /\ Idle
    /\ call' = [op |-> "validateHandle", handle |-> handle,
                result |-> validateHandle(handle)]
    /\ UNCHANGED <<loadStep, vocab, config>>

\* Mutant of ValidateCheckpoint: the errors of the rules listed in
\* config.skipRules are dropped before the strictness is applied.
ValidateCheckpointSkipping(stage, modules, taxonomies) ==
    /\ Idle
    /\ LET found == stageChecks(stage, modules, taxonomies)
           skipped == IF "skipRules" \in DOMAIN config THEN Range(config.skipRules) ELSE {}
           kept(error) == error.ruleId \notin skipped
       IN  call' = [op |-> "validateCheckpoint", stage |-> stage,
                    modules |-> modules, taxonomies |-> taxonomies,
                    outcome |-> checkpointOutcome(stage,
                                    [found EXCEPT !.errors = SelectSeq(found.errors, kept)],
                                    config.strictness)]
    /\ UNCHANGED <<loadStep, vocab, config>>

ValidateCheckpoint(stage, modules, taxonomies) ==
    /\ Idle
    /\ call' = [op |-> "validateCheckpoint", stage |-> stage,
                modules |-> modules, taxonomies |-> taxonomies,
                outcome |-> validateCheckpoint(stage, modules, taxonomies,
                                               config.strictness)]
    /\ UNCHANGED <<loadStep, vocab, config>>

ValidateAll(modules, taxonomies) ==
    /\ Idle
    /\ call' = [op |-> "validateAll",
                modules |-> modules, taxonomies |-> taxonomies,
                outcome |-> validateAll(modules, taxonomies, config.strictness)]
    /\ UNCHANGED <<loadStep, vocab, config>>

GetRuleDefinition(ruleId) ==
    /\ Idle
    /\ call' = [op |-> "getRuleDefinition", ruleId |-> ruleId,
                outcome |-> getRuleDefinition(ruleId)]
    /\ UNCHANGED <<loadStep, vocab, config>>

IsModifierValidForNode(nodeHandle, modifierHandle) ==
    /\ Idle
    /\ call' = [op |-> "isModifierValidForNode",
                nodeHandle |-> nodeHandle, modifierHandle |-> modifierHandle,
                outcome |-> isModifierValidForNode(nodeHandle, modifierHandle)]
    /\ UNCHANGED <<loadStep, vocab, config>>

\* Mutant of ValidateHandles: the handles found valid are remembered in the
\* compound handle set.
ValidateHandlesRemembering(handles) ==
    /\ Idle
    /\ call' = [op |-> "validateHandles", handles |-> handles,
                result |-> validateHandles(handles)]
    /\ KGL_COMPOUND_HANDLES_SET' =
           KGL_COMPOUND_HANDLES_SET \cup Range(validateHandles(handles).valid)
    /\ UNCHANGED <<loadStep, KGL_TYPE_TAXONOMIES, KGL_TYPE_TAXONOMIES_SET,
                   KGL_COMPOUND_RELATIONSHIPS, config>>

ValidateHandles(handles) ==
    /\ Idle
    /\ call' = [op |-> "validateHandles", handles |-> handles,
                result |-> validateHandles(handles)]
    /\ UNCHANGED <<loadStep, vocab, config>>

AnalyzeCompound(handle) ==
    /\ Idle
    /\ call' = [op |-> "analyzeCompound", handle |-> handle,
                result |-> analyzeCompound(handle)]
    /\ UNCHANGED <<loadStep, vocab, config>>

GetCorrectHandle(glyph) ==
    /\ Idle
    /\ call' = [op |-> "getCorrectHandle", glyph |-> glyph,
                result |-> getCorrectHandle(glyph)]
    /\ UNCHANGED <<loadStep, vocab, config>>

IsModifierOnModifierValid(baseModifier, extensionModifier) ==
    /\ Idle
    /\ call' = [op |-> "isModifierOnModifierValid",
                baseModifier |-> baseModifier,
                extensionModifier |-> extensionModifier,
                outcome |-> isModifierOnModifierValid(baseModifier, extensionModifier)]
    /\ UNCHANGED <<loadStep, vocab, config>>

\* The caller takes the outcome of its call.
Return ==
    /\ call # NoCall
    /\ call' = NoCall
    /\ UNCHANGED <<loadStep, vocab, config>>

Next ==
    \/ LoadTypeTaxonomies
    \/ LoadCompounds
    \/ ExtendTypeTaxonomies
    \/ \E partial \in PartialConfigs : Configure(partial)
    \/ \E handle \in HandlePool : ValidateHandle(handle)
    \/ \E stage \in PipelineStages, in \in ItemInputs : ValidateCheckpoint(stage, in[1], in[2])
    \/ \E in \in ItemInputs : ValidateAll(in[1], in[2])
    \/ \E ruleId \in RuleIds : GetRuleDefinition(ruleId)
    \/ \E nodeHandle \in NodeArguments, modifierHandle \in ModifierArguments :
           IsModifierValidForNode(nodeHandle, modifierHandle)
    \/ \E handles \in HandleLists : ValidateHandles(handles)
    \/ \E handle \in CompoundArguments : AnalyzeCompound(handle)
    \/ \E glyph \in GlyphArguments : GetCorrectHandle(glyph)
    \/ \E baseModifier \in BaseArguments, extensionModifier \in ExtensionArguments :
           IsModifierOnModifierValid(baseModifier, extensionModifier)
    \/ Return

Spec == Init /\ [][Next]_vars

----------------------------------------------------------------------------
(* validateCheckpoint step by step.  The methods are synchronous, so the    *)
(* only code that can run inside a call is code the caller supplied: the    *)
(* stage's loops read properties of the supplied items, and an accessor     *)
(* there can call configure.  The two tests of this.config.strictness       *)
(* after the switch run with no caller code in between.                     *)

\* The state once all modules are evaluated and the gateway is constructed.
InitLoaded ==
    LET types == generateKGLTypeTaxonomies
        compounds == generateKGLCompoundRelationships
        st == extendTypeTaxonomies(compounds, types,
                                   {types[i].handle : i \in 1..Len(types)})
    IN  /\ loadStep = "ready"
        /\ KGL_TYPE_TAXONOMIES = st.list
        /\ KGL_TYPE_TAXONOMIES_SET = st.set
        /\ KGL_COMPOUND_RELATIONSHIPS = compounds
        /\ KGL_COMPOUND_HANDLES_SET = {compounds[i].compound : i \in 1..Len(compounds)}
        /\ config = [strictness |-> "report"]
        /\ call = NoCall

InFlightInputs ==
    {<<<<>>, <<>>>>,
     <<<<[handle |-> "person"]>>, <<>>>>,
     <<<<[handle |-> "client"]>>, <<>>>>,
     <<<<[handle |-> "foo_bar"]>>, <<[handle |-> "person_type_a_b_c_d_e_f"]>>>>}

InFlight(pc) == call.op = "validateCheckpoint" /\ call.pc = pc

BeginCheckpoint(stage, modules, taxonomies) ==
    /\ Idle
    /\ call' = [op |-> "validateCheckpoint", pc |-> "stage", stage |-> stage,
                modules |-> modules, taxonomies |-> taxonomies,
                old |-> config.strictness]
    /\ UNCHANGED <<loadStep, vocab, config>>

\* A configure that would also run between the two strictness tests.
ConfigureBetweenTests(partial) ==
    /\ InFlight("stage") \/ InFlight("warnTest")
    /\ config' = mergeConfig(config, partial)
    /\ UNCHANGED <<loadStep, vocab, call>>

\* configure called by caller code that runs while the stage is checked.
ReentrantConfigure(partial) ==
    /\ InFlight("stage")
    /\ config' = mergeConfig(config, partial)
    /\ UNCHANGED <<loadStep, vocab, call>>

\* The switch over the stage.
RunStage ==
    /\ InFlight("stage")
    /\ call' = [call EXCEPT !.pc = "throwTest"]
                   @@ [found |-> stageChecks(call.stage, call.modules, call.taxonomies)]
    /\ UNCHANGED <<loadStep, vocab, config>>

\* if (!passed && this.config.strictness === 'strict') throw
ThrowTest ==
    /\ InFlight("throwTest")
    /\ call' = IF throwsOn(noErrors(call.found), config.strictness)
               THEN [call EXCEPT !.pc = "done"]
                        @@ [outcome |-> applyStrictness(call.stage, call.found,
                                            noErrors(call.found), "strict")]
               ELSE [call EXCEPT !.pc = "warnTest"]
    /\ UNCHANGED <<loadStep, vocab, config>>

\* if (!passed && this.config.strictness === 'warn') console.warn; return
WarnTest ==
    /\ InFlight("warnTest")
    /\ call' = [call EXCEPT !.pc = "done"]
                   @@ [outcome |-> applyStrictness(call.stage, call.found,
                                       noErrors(call.found),
                                       IF logsOn(noErrors(call.found), config.strictness)
                                       THEN "warn" ELSE "report")]
    /\ UNCHANGED <<loadStep, vocab, config>>

FinishCheckpoint ==
    /\ InFlight("done")
    /\ call' = NoCall
    /\ UNCHANGED <<loadStep, vocab, config>>

ConfigureReturns == call.op = "configure" /\ Return

NextInFlight ==
    \/ \E partial \in PartialConfigs : Configure(partial)
    \/ ConfigureReturns
    \/ \E stage \in PipelineStages, in \in InFlightInputs :
           BeginCheckpoint(stage, in[1], in[2])
    \/ \E partial \in PartialConfigs : ReentrantConfigure(partial)
    \/ RunStage
    \/ ThrowTest
    \/ WarnTest
    \/ FinishCheckpoint

SpecInFlight == InitLoaded /\ [][NextInFlight]_vars

----------------------------------------------------------------------------
(* Properties.                                                             *)

\* The vocabulary is complete and no call is in progress.
Loaded == loadStep = "ready" /\ call = NoCall

\* The compound array has been generated and no call is in progress.
CompoundsLoaded == loadStep \in {"compounds", "ready"} /\ call = NoCall

HandleCall == call.op = "validateHandle"

ValidL1(category) == [isValid |-> TRUE, level |-> "L1", nodeType |-> category]
ValidL2Compound == [isValid |-> TRUE, level |-> "L2_compound"]
ValidL2Taxonomy == [isValid |-> TRUE, level |-> "L2_taxonomy"]
ValidL3 == [isValid |-> TRUE, level |-> "L3_subtaxonomy"]

\* C1: for every handle h of the fixed node list, validateHandle(h) returns
\* isValid = true, level L1 and the category declared for that node; a call
\* of validateHandle on a node handle returns exactly that.
NodesAreL1 ==
    /\ \A i \in 1..Len(KGL_NODES) :
          validateHandle(KGL_NODES[i].handle) = ValidL1(KGL_NODES[i].category)
    /\ HandleCall =>
          \A i \in 1..Len(KGL_NODES) :
              call.handle = KGL_NODES[i].handle
                  => call.result = ValidL1(KGL_NODES[i].category)

NodesAreL1Seen ==
    /\ HandleCall
    /\ call.handle = "person"
    /\ call.result = ValidL1("Central")

\* The handles of the nodes that are not Domain nodes.
EligibleHandles ==
    {KGL_NODES[i].handle : i \in {j \in 1..Len(KGL_NODES) : KGL_NODES[j].category # "Domain"}}

\* "A_B" for the ordered pairs (A, B) of distinct non-Domain nodes.
OrderedPairHandles ==
    {p[1] \o "_" \o p[2] : p \in {q \in EligibleHandles \X EligibleHandles : q[1] # q[2]}}

startsWith(s, pat) == Len(s) >= Len(pat) /\ SubSeq(s, 1, Len(pat)) = pat

\* C2: the generated compound set is exactly the set of handles "A_B" for the
\* ordered pairs (A, B) of distinct non-Domain nodes: n(n-1) entries with
\* pairwise distinct handles, both A_B and B_A for every pair, no handle with a
\* Domain component, no handle A_A, and validateHandle reports each member
\* valid with level L2_compound.
CompoundsAreTheDirectedProduct ==
    /\ CompoundsLoaded =>
          LET n == Cardinality(EligibleHandles)
              compounds == KGL_COMPOUND_RELATIONSHIPS
          IN  /\ KGL_COMPOUND_HANDLES_SET = OrderedPairHandles
              /\ Len(compounds) = n * (n - 1)
              /\ Cardinality({compounds[i].compound : i \in 1..Len(compounds)}) = Len(compounds)
              /\ \A A \in EligibleHandles, B \in EligibleHandles :
                    A # B => /\ (A \o "_" \o B) \in KGL_COMPOUND_HANDLES_SET
                             /\ (B \o "_" \o A) \in KGL_COMPOUND_HANDLES_SET
                             /\ (A \o "_" \o B) # (B \o "_" \o A)
              /\ \A i \in 1..Len(compounds) :
                    /\ compounds[i].compound = compounds[i].handleA \o "_" \o compounds[i].handleB
                    /\ compounds[i].handleA # compounds[i].handleB
                    /\ compounds[i].handleA \notin DOMAIN_HANDLES_SET
                    /\ compounds[i].handleB \notin DOMAIN_HANDLES_SET
              /\ \A c \in KGL_COMPOUND_HANDLES_SET, d \in DOMAIN_HANDLES_SET :
                    ~startsWith(c, d \o "_") /\ ~endsWith(c, "_" \o d)
              /\ \A x \in CANONICAL_NODES_SET : (x \o "_" \o x) \notin KGL_COMPOUND_HANDLES_SET
              /\ \A c \in KGL_COMPOUND_HANDLES_SET : validateHandle(c) = ValidL2Compound
    /\ (HandleCall /\ call.handle \in OrderedPairHandles) => call.result = ValidL2Compound

CompoundsAreTheDirectedProductSeen ==
    /\ HandleCall
    /\ call.handle = "characteristic_person"
    /\ call.result = ValidL2Compound
    /\ "person_characteristic" \in KGL_COMPOUND_HANDLES_SET

\* C3: for every generated compound C, validateHandle(C + "_type") returns
\* isValid = true with level L2_taxonomy.
CompoundTypesAreL2Taxonomies ==
    /\ Loaded =>
          \A c \in KGL_COMPOUND_HANDLES_SET : validateHandle(c \o "_type") = ValidL2Taxonomy
    /\ HandleCall =>
          \A c \in KGL_COMPOUND_HANDLES_SET :
              call.handle = c \o "_type" => call.result = ValidL2Taxonomy

CompoundTypesAreL2TaxonomiesSeen ==
    /\ HandleCall
    /\ call.handle = "person_characteristic_type"
    /\ "person_characteristic" \in KGL_COMPOUND_HANDLES_SET
    /\ call.result = ValidL2Taxonomy

\* C4: the handle "type_type" is never generated, neither as a compound nor as
\* a type taxonomy, by the node phase, the pair product or the extension
\* passes, and validateHandle("type_type") returns isValid = false.
NoTypeType ==
    /\ "type_type" \notin KGL_COMPOUND_HANDLES_SET
    /\ "type_type" \notin KGL_TYPE_TAXONOMIES_SET
    /\ call = NoCall =>
          /\ \A i \in 1..Len(KGL_COMPOUND_RELATIONSHIPS) :
                KGL_COMPOUND_RELATIONSHIPS[i].compound # "type_type"
          /\ \A i \in 1..Len(KGL_TYPE_TAXONOMIES) :
                KGL_TYPE_TAXONOMIES[i].handle # "type_type"
    /\ ~validateHandle("type_type").isValid
    /\ (HandleCall /\ call.handle = "type_type") => ~call.result.isValid

NoTypeTypeSeen ==
    /\ HandleCall
    /\ call.handle = "type_type"
    /\ ~call.result.isValid
    /\ "type_status" \in KGL_COMPOUND_HANDLES_SET
    /\ "status_type" \in KGL_TYPE_TAXONOMIES_SET

\* The entries of the taxonomy array, by position, with this parent.
entriesOf(parent) ==
    {i \in 1..Len(KGL_TYPE_TAXONOMIES) : KGL_TYPE_TAXONOMIES[i].parent = parent}

\* C5: in the final type-taxonomy list every node other than "type" is the
\* parent of exactly one entry (handle node + "_type"), every compound is the
\* parent of exactly one entry (handle compound + "_type"), no entry has parent
\* "type", and no two entries share a handle.
OneTaxonomyPerParent ==
    Loaded =>
        LET types == KGL_TYPE_TAXONOMIES
            parents == {types[i].parent : i \in 1..Len(types)}
            handles == {types[i].handle : i \in 1..Len(types)}
        IN  /\ (CANONICAL_NODES_SET \ {"type"}) \subseteq parents
            /\ KGL_COMPOUND_HANDLES_SET \subseteq parents
            /\ "type" \notin parents
            /\ Cardinality(parents) = Len(types)
            /\ \A i \in 1..Len(types) : types[i].handle = types[i].parent \o "_type"
            /\ Cardinality(handles) = Len(types)
            /\ \A x \in {"person", "status", "person_type", "type_status", "status_person"} :
                  Cardinality(entriesOf(x)) = 1

OneTaxonomyPerParentSeen ==
    /\ Loaded
    /\ entriesOf("person") # {}
    /\ entriesOf("person_type") # {}
    /\ entriesOf("type") = {}

\* The non-Domain nodes and the nodes other than "type", in declaration order.
EligibleNodes == SelectSeq(KGL_NODES, notDomainNode)
TypedNodes == SelectSeq(KGL_NODES, notTypeNode)

\* The place of the compound of the a-th and the b-th eligible node in an
\* array filled row by row, each row leaving out its own node.
placeOf(a, b) ==
    (a - 1) * (Len(EligibleNodes) - 1) + (IF b < a THEN b ELSE b - 1)

\* C6: generation is idempotent and deterministic: applying the compound type
\* taxonomy extension again to the extended taxonomy list adds no entry and
\* changes no entry (and neither does the modifier-on-modifier pass on the
\* compound array), and a second generation from the node list yields the
\* same compounds and taxonomies in the same order, which is the declaration
\* order of the nodes.
GenerationIsIdempotent ==
    Loaded =>
        LET compounds == KGL_COMPOUND_RELATIONSHIPS
            types == KGL_TYPE_TAXONOMIES
            again == generateKGLTypeTaxonomies
        IN  /\ extendTypeTaxonomies(compounds, types, KGL_TYPE_TAXONOMIES_SET)
                  = [list |-> types, set |-> KGL_TYPE_TAXONOMIES_SET]
            /\ extensionPass(1, compounds) = compounds
            /\ generateKGLCompoundRelationships = compounds
            /\ extendTypeTaxonomies(generateKGLCompoundRelationships, again,
                                    {again[i].handle : i \in 1..Len(again)})
                  = [list |-> types, set |-> KGL_TYPE_TAXONOMIES_SET]
            /\ \A a \in 1..Len(EligibleNodes), b \in 1..Len(EligibleNodes) :
                  a # b => compounds[placeOf(a, b)].compound
                              = EligibleNodes[a].handle \o "_" \o EligibleNodes[b].handle
            /\ \A i \in 1..Len(TypedNodes) : types[i].parent = TypedNodes[i].handle
            /\ \A k \in 1..Len(compounds) :
                  types[Len(TypedNodes) + k].parent = compounds[k].compound

GenerationIsIdempotentSeen ==
    /\ Loaded
    /\ Len(KGL_TYPE_TAXONOMIES) > Len(generateKGLTypeTaxonomies)
    /\ "status_condition_type" \in KGL_TYPE_TAXONOMIES_SET
    /\ someCompound(KGL_COMPOUND_RELATIONSHIPS, "status_condition")

\* Where "_type_" occurs in h for the first time (0 if nowhere), found by
\* comparing every six-character window.
firstTypeSeparator(h) ==
    IF \E i \in 1..(Len(h) - 5) : SubSeq(h, i, i + 5) = "_type_"
    THEN CHOOSE i \in 1..(Len(h) - 5) :
            /\ SubSeq(h, i, i + 5) = "_type_"
            /\ \A j \in 1..(i - 1) : SubSeq(h, j, j + 5) # "_type_"
    ELSE 0

\* h contains "_type_" and what precedes its first occurrence is a node or a
\* generated compound.
hasKnownParentBase(h) ==
    /\ firstTypeSeparator(h) # 0
    /\ SubSeq(h, 1, firstTypeSeparator(h) - 1)
          \in CANONICAL_NODES_SET \cup KGL_COMPOUND_HANDLES_SET

\* The level of the first check that matches, in the order L1 node, L2
\* compound, L2 type taxonomy, L3 pattern.
firstMatch(h) ==
    IF h \in CANONICAL_NODES_SET THEN "L1"
    ELSE IF h \in KGL_COMPOUND_HANDLES_SET THEN "L2_compound"
    ELSE IF h \in KGL_TYPE_TAXONOMIES_SET THEN "L2_taxonomy"
    ELSE IF hasKnownParentBase(h) THEN "L3_subtaxonomy"
    ELSE "none"

levelOf(result) == IF result.isValid THEN result.level ELSE "none"

\* C7: validateHandle applies its checks in the order L1 node, L2 compound, L2
\* type taxonomy, L3 "_type_" pattern and returns the first match; so every
\* generated L2 handle that contains "_type_" (such as the taxonomy
\* X_type_type of the compound X_type) is reported with an L2 level and never
\* as L3_subtaxonomy.
ExactMatchesComeFirst ==
    /\ HandleCall => levelOf(call.result) = firstMatch(call.handle)
    /\ Loaded =>
          /\ \A h \in KGL_COMPOUND_HANDLES_SET :
                includes(h, "_type_") => validateHandle(h) = ValidL2Compound
          /\ \A h \in KGL_TYPE_TAXONOMIES_SET :
                includes(h, "_type_") => validateHandle(h) = ValidL2Taxonomy
          /\ \A x \in CANONICAL_NODES_SET \ (DOMAIN_HANDLES_SET \cup {"type"}) :
                /\ (x \o "_type_type") \in KGL_TYPE_TAXONOMIES_SET
                /\ validateHandle(x \o "_type_type") = ValidL2Taxonomy

ExactMatchesComeFirstSeen ==
    /\ HandleCall
    /\ call.handle = "person_type_type"
    /\ hasKnownParentBase(call.handle)
    /\ call.result = ValidL2Taxonomy

\* h is a node, a generated compound or a generated type taxonomy.
isExactMatch(h) ==
    h \in CANONICAL_NODES_SET \cup KGL_COMPOUND_HANDLES_SET \cup KGL_TYPE_TAXONOMIES_SET

\* C8: for a string h that is neither an L1 node, a generated compound nor a
\* generated type taxonomy, validateHandle(h) is valid with level
\* L3_subtaxonomy if and only if h contains "_type_" and the part of h before
\* its first occurrence is an L1 node handle or a generated compound handle,
\* whatever follows it; otherwise the result is invalid and carries an error
\* message and a suggestion. "person_characteristic_type_gender" is valid
\* L3_subtaxonomy.
SubTaxonomyPattern ==
    /\ (HandleCall /\ ~isExactMatch(call.handle)) =>
          /\ call.result.isValid <=> hasKnownParentBase(call.handle)
          /\ call.result.isValid => call.result = ValidL3
          /\ ~call.result.isValid =>
                /\ DOMAIN call.result = {"isValid", "error", "suggestion"}
                /\ call.result.error = "\"" \o call.handle \o "\" is not a canonical KGL handle"
                /\ Len(call.result.suggestion) > 0
    /\ Loaded =>
          /\ validateHandle("person_characteristic_type_gender") = ValidL3
          /\ \A suffix \in {"", "gender", "type", "_", "person_type_x", "Gender 1"} :
                /\ \A base \in {"person", "person_characteristic", "type_status"} :
                      ~isExactMatch(base \o "_type_" \o suffix)
                          => validateHandle(base \o "_type_" \o suffix) = ValidL3
                /\ ~isExactMatch("person_characteristic_type_" \o suffix)
                /\ ~validateHandle("gender_type_" \o suffix).isValid
                /\ ~validateHandle("kompas_person_type_" \o suffix).isValid

SubTaxonomyPatternSeen ==
    /\ HandleCall
    /\ call.handle = "person_characteristic_type_gender"
    /\ ~isExactMatch(call.handle)
    /\ call.result = ValidL3

CheckpointCall == call.op = "validateCheckpoint"
AllCall == call.op = "validateAll"

\* The items of a list, by position, that the map stage rejects.
rejected(items) == {i \in 1..Len(items) : ~validateHandle(items[i].handle).isValid}

\* The modules, by position, that the build stage finds without their taxonomy.
untyped(modules, taxonomies) ==
    {i \in 1..Len(modules) :
        /\ \E k \in 1..Len(modules[i].handle) : SubSeq(modules[i].handle, k, k) = "_"
        /\ ~endsWith(modules[i].handle, "_type")
        /\ \A j \in 1..Len(modules) : modules[j].handle # modules[i].handle \o "_type"
        /\ \A j \in 1..Len(taxonomies) : taxonomies[j].handle # modules[i].handle \o "_type"}

\* The number of errors of a stage, counted over all of its items.
errorCount(stage, modules, taxonomies) ==
    IF stage = "map"
    THEN Cardinality(rejected(modules)) + Cardinality(rejected(taxonomies))
    ELSE IF stage = "build" THEN Cardinality(untyped(modules, taxonomies))
    ELSE 0

\* C9: under strictness 'strict', validateCheckpoint raises a failure if and
\* only if the stage produced at least one error; it raises only after every
\* item of the stage has been checked (the failure reports the stage's total
\* error count and the message of the first error), and a stage that produced
\* warnings but no errors returns normally with passed = true.
StrictRaisesOnErrors ==
    (CheckpointCall /\ config.strictness = "strict") =>
        LET found == stageChecks(call.stage, call.modules, call.taxonomies)
            total == errorCount(call.stage, call.modules, call.taxonomies)
        IN  /\ Len(found.errors) = total
            /\ call.outcome.kind = "thrown" <=> total > 0
            /\ call.outcome.kind = "thrown" =>
                  call.outcome.message =
                      "Validation failed at " \o call.stage \o " stage with "
                      \o ToString(total) \o " errors. First error: "
                      \o found.errors[1].message
            /\ total = 0 =>
                  /\ call.outcome.kind = "returned"
                  /\ call.outcome.result.passed
                  /\ call.outcome.result.errors = <<>>
                  /\ call.outcome.result.warnings = found.warnings

StrictRaisesOnErrorsSeen ==
    /\ CheckpointCall
    /\ config.strictness = "strict"
    /\ call.stage = "map"
    /\ call.modules = <<[handle |-> "client"], [handle |-> "foo_bar"]>>
    /\ call.outcome.kind = "thrown"
    /\ call.outcome.message =
          "Validation failed at map stage with 2 errors. First error: "
          \o "Module \"client\" is not a canonical KGL handle"

\* C10: under strictness 'report' and under strictness 'warn',
\* validateCheckpoint and validateAll never raise, for any stage and any
\* input: the validation errors are returned in the result, and for the same
\* inputs 'warn' returns the same CheckpointResult as 'report' (it differs only
\* by logging).
LenientNeverRaises ==
    /\ (CheckpointCall /\ config.strictness \in {"report", "warn"}) =>
          /\ call.outcome.kind = "returned"
          /\ call.outcome.result.errors
                = stageChecks(call.stage, call.modules, call.taxonomies).errors
          /\ Len(call.outcome.result.errors)
                = errorCount(call.stage, call.modules, call.taxonomies)
          /\ call.outcome.result
                = validateCheckpoint(call.stage, call.modules, call.taxonomies, "report").result
          /\ config.strictness = "report" => call.outcome.log = <<>>
    /\ (AllCall /\ config.strictness \in {"report", "warn"}) =>
          /\ call.outcome.kind = "returned"
          /\ call.outcome.report
                = validateAll(call.modules, call.taxonomies, "report").report
          /\ call.outcome.report.totalErrors
                = errorCount("map", call.modules, call.taxonomies)
                  + errorCount("build", call.modules, call.taxonomies)
          /\ config.strictness = "report" => call.outcome.log = <<>>

LenientNeverRaisesSeen ==
    /\ CheckpointCall
    /\ config.strictness = "warn"
    /\ call.outcome.kind = "returned"
    /\ ~call.outcome.result.passed
    /\ Len(call.outcome.result.errors) > 1
    /\ call.outcome.log # <<>>

ConfigureCall == call.op = "configure"

\* What a checkpoint does under a strictness: under 'strict' it throws exactly
\* when the stage has errors, under 'warn' it returns and logs exactly when
\* the stage has errors, under 'report' it returns and logs nothing.
behavesUnder(strictness, outcome, total) ==
    CASE strictness = "strict" -> (outcome.kind = "thrown") <=> (total > 0)
      [] strictness = "warn" ->
            outcome.kind = "returned" /\ ((outcome.log # <<>>) <=> (total > 0))
      [] strictness = "report" -> outcome.kind = "returned" /\ outcome.log = <<>>

\* C11: validation reads the configuration current at call time: the
\* strictness is 'report' initially, a configure call that supplies a
\* strictness makes it the current one, a configure call that supplies only
\* other fields leaves it unchanged, no other step changes it, and
\* validateCheckpoint behaves according to the current strictness.
ConfigurationIsReadAtCallTime ==
    /\ config.strictness = "report"
    /\ [][/\ call'.op = "configure" =>
                config'.strictness =
                    IF "strictness" \in DOMAIN call'.partial
                    THEN call'.partial.strictness ELSE config.strictness
          /\ call'.op # "configure" => config' = config
          /\ call'.op = "validateCheckpoint" =>
                behavesUnder(config.strictness, call'.outcome,
                             errorCount(call'.stage, call'.modules, call'.taxonomies))
         ]_vars

ConfigurationIsReadAtCallTimeSeen ==
    /\ CheckpointCall
    /\ config.strictness = "strict"
    /\ "enabledCategories" \in DOMAIN config
    /\ call.outcome.kind = "thrown"

BuildReturned ==
    CheckpointCall /\ call.stage = "build" /\ call.outcome.kind = "returned"

\* h looks like a compound and its type taxonomy is not among the handles.
lacksType(h, handles) ==
    /\ \E k \in 1..Len(h) : SubSeq(h, k, k) = "_"
    /\ ~endsWith(h, "_type")
    /\ (h \o "_type") \notin handles

\* The number of errors with this rule id and this affected handle.
errorsOn(errors, ruleId, h) ==
    Cardinality({k \in 1..Len(errors) :
                    errors[k].ruleId = ruleId /\ errors[k].affectedHandle = h})

\* The number of items with handle h.
itemsNamed(items, h) == Cardinality({i \in 1..Len(items) : items[i].handle = h})

suppliedHandles(modules, taxonomies) ==
    {modules[i].handle : i \in 1..Len(modules)}
        \cup {taxonomies[i].handle : i \in 1..Len(taxonomies)}

\* C12 as stated: in the build stage every supplied module or taxonomy whose
\* handle contains "_" and does not end in "_type" yields exactly one T01
\* error if "<handle>_type" is not among the supplied handles and none if it
\* is, and the stage emits no other error.
T01ForEverySuppliedHandle ==
    BuildReturned =>
        LET errors == call.outcome.result.errors
            handles == suppliedHandles(call.modules, call.taxonomies)
        IN  /\ \A k \in 1..Len(errors) : errors[k].ruleId = "T01"
            /\ \A h \in handles :
                  errorsOn(errors, "T01", h) =
                      IF lacksType(h, handles)
                      THEN itemsNamed(call.modules \o call.taxonomies, h) ELSE 0

\* C12, amended: in the build stage every supplied module whose handle
\* contains "_" and does not end in "_type" yields exactly one T01 error if
\* "<handle>_type" is not among the supplied module and taxonomy handles and
\* none if it is; a supplied taxonomy yields no error, whatever its handle; the
\* stage emits no other error. validateCheckpoint("build", [one module
\* "foo_bar"], []) returns exactly one error, with rule id T01.
T01ForEverySuppliedModule ==
    /\ BuildReturned =>
          LET errors == call.outcome.result.errors
              handles == suppliedHandles(call.modules, call.taxonomies)
          IN  /\ \A k \in 1..Len(errors) : errors[k].ruleId = "T01"
              /\ \A h \in handles :
                    errorsOn(errors, "T01", h) =
                        IF lacksType(h, handles) THEN itemsNamed(call.modules, h) ELSE 0
              /\ call.modules = <<>> => errors = <<>>
    /\ Loaded =>
          \A strictness \in {"report", "warn"} :
              LET result == validateCheckpoint("build", <<[handle |-> "foo_bar"]>>, <<>>,
                                               strictness).result
              IN  /\ Len(result.errors) = 1
                  /\ result.errors[1].ruleId = "T01"
                  /\ result.errors[1].affectedHandle = "foo_bar"

T01ForEverySuppliedModuleSeen ==
    /\ BuildReturned
    /\ call.modules = <<[handle |-> "foo_bar"]>>
    /\ call.taxonomies = <<[handle |-> "person_type_a_b_c_d_e"]>>
    /\ Len(call.outcome.result.errors) = 1
    /\ call.outcome.result.errors[1].ruleId = "T01"
    /\ call.outcome.result.errors[1].affectedHandle = "foo_bar"

MapReturned ==
    CheckpointCall /\ call.stage = "map" /\ call.outcome.kind = "returned"

\* The k-th smallest member of a set of positions.
nth(positions, k) ==
    CHOOSE i \in positions : Cardinality({j \in positions : j <= i}) = k

\* C13: in the map stage every supplied module handle and taxonomy handle is
\* classified with validateHandle: each item whose handle is invalid yields
\* exactly one error with rule id R06 whose affectedHandle is that handle and
\* whose suggestion is the one validateHandle returned, each valid item yields
\* no error, the errors are in input order (modules, then taxonomies), and
\* stats.itemsChecked is the number of modules plus the number of taxonomies.
MapStageClassifiesEveryItem ==
    MapReturned =>
        LET errors == call.outcome.result.errors
            items == call.modules \o call.taxonomies
            bad == rejected(items)
        IN  /\ Len(errors) = Cardinality(bad)
            /\ \A k \in 1..Len(errors) :
                  LET item == items[nth(bad, k)]
                  IN  /\ errors[k].ruleId = "R06"
                      /\ errors[k].affectedHandle = item.handle
                      /\ errors[k].suggestion = validateHandle(item.handle).suggestion
                      /\ errors[k].message =
                            (IF nth(bad, k) <= Len(call.modules) THEN "Module" ELSE "Taxonomy")
                            \o " \"" \o item.handle \o "\" is not a canonical KGL handle"
            /\ call.outcome.result.warnings = <<>>
            /\ call.outcome.result.stats.itemsChecked
                  = Len(call.modules) + Len(call.taxonomies)

MapStageClassifiesEveryItemSeen ==
    /\ MapReturned
    /\ call.modules = <<[handle |-> "client"]>>
    /\ call.taxonomies = <<[handle |-> "foo_bar_type"]>>
    /\ Len(call.outcome.result.errors) = 2
    /\ call.outcome.result.errors[1].affectedHandle = "client"
    /\ call.outcome.result.errors[1].suggestion = "Map \"client\" to canonical: person"
    /\ call.outcome.result.errors[2].affectedHandle = "foo_bar_type"

\* The number of "_" in h.
separators(h) == Cardinality({k \in 1..Len(h) : SubSeq(h, k, k) = "_"})

\* The depth above which the build stage warns.
WarnAbove == 6

\* passed, errorsFound and warningsFound of a CheckpointResult agree with its
\* errors and warnings.
consistentResult(result) ==
    /\ result.passed <=> (result.errors = <<>>)
    /\ result.stats.errorsFound = Len(result.errors)
    /\ result.stats.warningsFound = Len(result.warnings)

\* C14: in the build stage a warning with rule id T09 is emitted for a
\* supplied taxonomy handle if and only if its number of "_" separators is
\* greater than 6 (exactly 6 gives no warning); warnings never change the
\* outcome: for every CheckpointResult, passed is true exactly when errors is
\* empty, and stats.errorsFound and stats.warningsFound equal the lengths of
\* errors and warnings.
DepthWarningsDoNotFail ==
    /\ BuildReturned =>
          LET warnings == call.outcome.result.warnings
              deep == {i \in 1..Len(call.taxonomies) :
                          separators(call.taxonomies[i].handle) > WarnAbove}
          IN  /\ Len(warnings) = Cardinality(deep)
              /\ \A k \in 1..Len(warnings) :
                    /\ warnings[k].ruleId = "T09"
                    /\ warnings[k].affectedHandle = call.taxonomies[nth(deep, k)].handle
    /\ (CheckpointCall /\ call.outcome.kind = "returned") =>
          consistentResult(call.outcome.result)
    /\ (AllCall /\ call.outcome.kind = "returned") =>
          \A k \in 1..Len(call.outcome.report.checkpoints) :
              consistentResult(call.outcome.report.checkpoints[k])

DepthWarningsDoNotFailSeen ==
    /\ BuildReturned
    /\ call.modules = <<>>
    /\ call.taxonomies = <<[handle |-> "person_type_a_b_c_d_e"],
                           [handle |-> "person_type_a_b_c_d_e_f"]>>
    /\ separators("person_type_a_b_c_d_e") = WarnAbove
    /\ Len(call.outcome.result.warnings) = 1
    /\ call.outcome.result.warnings[1].affectedHandle = "person_type_a_b_c_d_e_f"
    /\ call.outcome.result.passed

AllReturned == AllCall /\ call.outcome.kind = "returned"

RECURSIVE sumOf(_)
\* The sum of a sequence of numbers.
sumOf(counts) == IF counts = <<>> THEN 0 ELSE Head(counts) + sumOf(Tail(counts))

errorsIn(checkpoints) == [k \in 1..Len(checkpoints) |-> Len(checkpoints[k].errors)]
warningsIn(checkpoints) == [k \in 1..Len(checkpoints) |-> Len(checkpoints[k].warnings)]

\* The rule ids of the errors and of the warnings of a sequence of checkpoints.
firedRules(checkpoints) ==
    UNION {{checkpoints[k].errors[i].ruleId : i \in 1..Len(checkpoints[k].errors)}
           \cup {checkpoints[k].warnings[i].ruleId : i \in 1..Len(checkpoints[k].warnings)} :
              k \in 1..Len(checkpoints)}

\* C15: when validateAll returns, its report holds exactly three checkpoints
\* in the order map, build, export; totalErrors and totalWarnings are the sums
\* of the checkpoints' error and warning counts; passed + failed = 3; isValid
\* is true exactly when totalErrors = 0 (equivalently failed = 0); and
\* rulesChecked is the duplicate-free set of the rule ids that fired in any of
\* the three stages.
FullReportAddsUp ==
    AllReturned =>
        LET report == call.outcome.report
            checkpoints == report.checkpoints
        IN  /\ [k \in 1..Len(checkpoints) |-> checkpoints[k].stage] = <<"map", "build", "export">>
            /\ \A k \in 1..Len(checkpoints) :
                  /\ checkpoints[k].errors
                        = stageChecks(checkpoints[k].stage, call.modules, call.taxonomies).errors
                  /\ checkpoints[k].warnings
                        = stageChecks(checkpoints[k].stage, call.modules, call.taxonomies).warnings
            /\ report.totalErrors = sumOf(errorsIn(checkpoints))
            /\ report.totalWarnings = sumOf(warningsIn(checkpoints))
            /\ report.passed + report.failed = Len(AllStages)
            /\ report.failed = Cardinality({k \in 1..Len(checkpoints) : checkpoints[k].errors # <<>>})
            /\ report.isValid <=> (report.totalErrors = 0)
            /\ report.isValid <=> (report.failed = 0)
            /\ Cardinality(Range(report.rulesChecked)) = Len(report.rulesChecked)
            /\ Range(report.rulesChecked) = firedRules(checkpoints)

\* C16: for the stages ingest, extract and export, validateCheckpoint performs
\* no check: for every input and every strictness it returns passed = true
\* with empty errors and warnings and never raises (ingest and export count
\* the modules and the taxonomies, extract the modules).
UncheckedStagesPass ==
    (CheckpointCall /\ call.stage \in {"ingest", "extract", "export"}) =>
        /\ call.outcome.kind = "returned"
        /\ call.outcome.log = <<>>
        /\ call.outcome.result.stage = call.stage
        /\ call.outcome.result.passed
        /\ call.outcome.result.errors = <<>>
        /\ call.outcome.result.warnings = <<>>
        /\ call.outcome.result.stats =
              [itemsChecked |-> IF call.stage = "extract" THEN Len(call.modules)
                                ELSE Len(call.modules) + Len(call.taxonomies),
               errorsFound |-> 0, warningsFound |-> 0]

UncheckedStagesPassSeen ==
    /\ CheckpointCall
    /\ call.stage = "export"
    /\ config.strictness = "strict"
    /\ call.modules = <<[handle |-> "client"], [handle |-> "foo_bar"]>>
    /\ call.outcome.kind = "returned"
    /\ call.outcome.result.passed

RuleCall == call.op = "getRuleDefinition"

validRuleIds == {KGL_RULES_DEFINITIONS[i].id : i \in 1..Len(KGL_RULES_DEFINITIONS)}

\* C17: getRuleDefinition(id) returns, for every id of the rule catalog, a
\* record whose id is the requested id; for every other id it fails (it
\* returns neither a record nor an empty value) with a message that names
\* the unknown id's failure as "not found" and lists every valid rule id.
RuleLookupFindsOrFails ==
    RuleCall =>
        IF call.ruleId \in validRuleIds
        THEN /\ call.outcome.kind = "returned"
             /\ call.outcome.result.id = call.ruleId
        ELSE /\ call.outcome.kind = "thrown"
             /\ includes(call.outcome.message, "not found")
             /\ \A id \in validRuleIds : includes(call.outcome.message, id)

RuleLookupFindsOrFailsSeen ==
    /\ RuleCall
    /\ call.ruleId = "ZZ99"
    /\ call.outcome.kind = "thrown"
    /\ includes(call.outcome.message, "R06")

ModifierCall == call.op = "isModifierValidForNode"

tableKeys == DOMAIN NODE_MODIFIER_COMPATIBILITY

\* C18: isModifierValidForNode(node, modifier) never raises, and for every
\* string node that is not a key of the compatibility table it returns
\* false, whatever the modifier.
ModifierQueryNeverRaises ==
    ModifierCall =>
        /\ call.outcome.kind = "returned"
        /\ call.nodeHandle \notin tableKeys => call.outcome.value = FALSE

nodeQuery == ModifierCall /\ call.nodeHandle \in CANONICAL_NODES_SET

\* The three restricted modifiers of the table's documentation, each true
\* exactly for the nodes it names.
restrictedModifiersHold(n, m, valid) ==
    /\ m = "condition" => (valid <=> n \in {"person", "case", "event"})
    /\ m = "acuity" => (valid <=> n \in {"person", "case", "event"})
    /\ m = "role" => (valid <=> n \in {"person", "organization", "task", "authority"})

universalModifiers == {"status", "characteristic", "limitation"}

\* C19 as stated: for every node handle n of the node list, condition and
\* acuity are valid exactly for person, case and event, role exactly for
\* person, organization, task and authority, and status, characteristic and
\* limitation are valid for all nodes.
TableConstraintsOnEveryNode ==
    nodeQuery =>
        /\ restrictedModifiersHold(call.nodeHandle, call.modifierHandle,
                                   call.outcome.value)
        /\ call.modifierHandle \in universalModifiers => call.outcome.value

\* C19, amended: the restricted modifiers are as stated for every node of
\* the node list; status, characteristic and limitation are valid for the
\* nodes whose category is not Modifier (the rows of the table) and for no
\* Modifier node, since the table has no row for those.
TableConstraintsOnItsRows ==
    nodeQuery =>
        /\ call.outcome.kind = "returned"
        /\ restrictedModifiersHold(call.nodeHandle, call.modifierHandle,
                                   call.outcome.value)
        /\ call.modifierHandle \in universalModifiers =>
               (call.outcome.value <=> call.nodeHandle \notin MODIFIER_HANDLES_SET)
        /\ call.nodeHandle \in MODIFIER_HANDLES_SET <=> call.nodeHandle \notin tableKeys

TableConstraintsOnItsRowsSeen ==
    /\ ModifierCall
    /\ call.nodeHandle = "capacity"
    /\ call.modifierHandle = "limitation"
    /\ call.outcome = [kind |-> "returned", value |-> FALSE]

combined(n, m) == n \o "_" \o m

\* Whether the call in progress asked about node n and was answered true.
answeredTrue == call.outcome = [kind |-> "returned", value |-> TRUE]

\* C20 as stated: for every node handle n and every handle m with
\* isModifierValidForNode(n, m) true, validateHandle(n_m) is valid; and
\* validateHandle(n_acuity) is valid for every node n other than acuity.
CompatibleImpliesGrammatical ==
    nodeQuery =>
        /\ answeredTrue =>
               validateHandle(combined(call.nodeHandle, call.modifierHandle)).isValid
        /\ call.nodeHandle # "acuity" =>
               validateHandle(combined(call.nodeHandle, "acuity")).isValid

\* C20, amended: the implication and the combinability of acuity hold for
\* the nodes that are not Domain nodes; for the five Domain nodes the table
\* has modifiers (status among them), yet n_m is a valid handle for none of
\* them and n_acuity is not valid.
CompatibleImpliesGrammaticalOffDomains ==
    nodeQuery =>
        IF call.nodeHandle \in DOMAIN_HANDLES_SET
        THEN /\ answeredTrue =>
                    ~validateHandle(combined(call.nodeHandle, call.modifierHandle)).isValid
             /\ ~validateHandle(combined(call.nodeHandle, "acuity")).isValid
             /\ call.modifierHandle = "status" => answeredTrue
        ELSE /\ answeredTrue =>
                    validateHandle(combined(call.nodeHandle, call.modifierHandle)).isValid
             /\ call.nodeHandle # "acuity" =>
                    validateHandle(combined(call.nodeHandle, "acuity")).isValid

CompatibleImpliesGrammaticalOffDomainsSeen ==
    /\ ModifierCall
    /\ call.nodeHandle = "record"
    /\ call.modifierHandle = "status"
    /\ answeredTrue
    /\ validateHandle("record_status").level = "L2_compound"
    /\ ~isModifierValidForNode("record", "acuity").value
    /\ validateHandle("record_acuity").isValid

synonyms == DOMAIN mappings

containment(lower) ==
    {i \in 1..Len(CANONICAL_HANDLES) :
        \/ includes(CANONICAL_HANDLES[i], lower)
        \/ includes(lower, CANONICAL_HANDLES[i])}

directHit(handle, target) == "Map \"" \o handle \o "\" to canonical: " \o target

consider(canonical) ==
    "Consider using \"" \o canonical \o "\" or a compound like \""
        \o canonical \o "_type\""

\* The suggestion the three ordered steps give for a handle.
threeSteps(handle, lower) ==
    IF lower \in synonyms THEN directHit(handle, mappings[lower])
    ELSE IF containment(lower) # {}
    THEN consider(CANONICAL_HANDLES[CHOOSE i \in containment(lower) :
                                       \A j \in containment(lower) : i <= j])
    ELSE "Review the 45 canonical nodes in KGL_NODES"

\* C21: every invalid validateHandle result carries the suggestion of the
\* three ordered steps on the lower-cased input: the synonym table's target
\* if the input is one of its keys (even when a canonical handle is a
\* substring of the input), otherwise the first canonical handle in
\* declaration order that contains the input or is contained in it,
\* otherwise the generic review message.
SuggestionFollowsThreeSteps ==
    (HandleCall /\ ~call.result.isValid) =>
        call.result.suggestion = threeSteps(call.handle, toLowerCase(call.handle))

queryOperations ==
    {"validateHandle", "validateHandles", "analyzeCompound",
     "isModifierValidForNode", "getRuleDefinition",
     "validateCheckpoint", "validateAll"}

\* C22: once initialization is over no step changes the compound list and
\* set or the type-taxonomy list and set; none of the validation and query
\* operations changes the configuration, which only configure changes.  (The
\* node list and the rule catalog are literals that no operation assigns.)
VocabularyIsFrozen ==
    [][/\ loadStep = "ready" => vocab' = vocab
       /\ call'.op \in queryOperations => vocab' = vocab /\ config' = config
       /\ config' # config => call'.op = "configure"]_vars

VocabularyIsFrozenSeen ==
    /\ call.op = "validateHandles"
    /\ call.result.valid = <<"person_case">>
    /\ Len(call.result.invalid) = 1
    /\ config.strictness = "strict"
    /\ KGL_COMPOUND_HANDLES_SET = Range(MapSeq(generateKGLCompoundRelationships, LAMBDA c : c.compound))

\* C23: when configure runs inside a validateCheckpoint call in progress,
\* the call's outcome (raise, log or plain return) is the outcome of the
\* whole call under the strictness in force when it began or under the
\* strictness in force when it ends, never anything else.
InFlightCallSeesOldOrNew ==
    InFlight("done") =>
        \/ call.outcome = validateCheckpoint(call.stage, call.modules,
                                             call.taxonomies, call.old)
        \/ call.outcome = validateCheckpoint(call.stage, call.modules,
                                             call.taxonomies, config.strictness)

InFlightCallSeesOldOrNewSeen ==
    /\ InFlight("done")
    /\ call.old = "warn"
    /\ config.strictness = "strict"
    /\ "skipRules" \notin DOMAIN config
    /\ call.outcome.kind = "thrown"

nodesWithGlyph(glyph) == {i \in 1..Len(KGL_NODES) : KGL_NODES[i].kgl = glyph}

\* C24: the glyphs of the 45 nodes are pairwise distinct, and the reverse
\* lookup maps the glyph of every node back to the handle of that node.
GlyphsAreUnique ==
    /\ \A i, j \in 1..Len(KGL_NODES) :
           i # j => KGL_NODES[i].kgl # KGL_NODES[j].kgl
    /\ \A i \in 1..Len(KGL_NODES) :
           getCorrectGlyph(KGL_NODES[i].handle) = KGL_NODES[i].kgl
    /\ call.op = "getCorrectHandle" =>
           \A i \in nodesWithGlyph(call.glyph) : call.result = KGL_NODES[i].handle

ExtensionCall == call.op = "isModifierOnModifierValid"

\* Is B in the validExtensions list the node data declares for modifier A?
declaredExtension(A, B) ==
    \E i \in 1..Len(KGL_NODES) :
        /\ KGL_NODES[i].handle = A
        /\ KGL_NODES[i].category = "Modifier"
        /\ \E k \in 1..Len(KGL_NODES[i].validExtensions) :
               KGL_NODES[i].validExtensions[k] = B

\* C25: isModifierOnModifierValid(A, B) returns (it never raises) true
\* exactly when A is a modifier node and B is in A's declared validExtensions,
\* so false for a base that is not a modifier; type -> status holds while
\* status -> type does not; and whenever it is true A_B is a generated
\* compound.
ExtensionRelationIsTheDeclaredData ==
    ExtensionCall =>
        /\ call.outcome.kind = "returned"
        /\ call.outcome.value <=> declaredExtension(call.baseModifier, call.extensionModifier)
        /\ (call.baseModifier = "type" /\ call.extensionModifier = "status") => call.outcome.value
        /\ (call.baseModifier = "status" /\ call.extensionModifier = "type") => ~call.outcome.value
        /\ call.outcome.value =>
               combined(call.baseModifier, call.extensionModifier) \in KGL_COMPOUND_HANDLES_SET

catalogued(ruleId) == getRuleDefinition(ruleId).kind = "returned"

namedAsInCatalog(error) ==
    /\ catalogued(error.ruleId)
    /\ getRuleDefinition(error.ruleId).result.name = error.ruleName

\* Are the findings of one stage all tied to the catalog?
findingsAreCatalogued(found) ==
    /\ \A k \in 1..Len(found.errors) : namedAsInCatalog(found.errors[k])
    /\ \A k \in 1..Len(found.warnings) : catalogued(found.warnings[k].ruleId)

\* The stages a call in progress has run.
stagesOf(op) == IF op = "validateAll" THEN Range(AllStages) ELSE {call.stage}

\* C26: every error and every warning the gateway produces in any stage,
\* whether it is returned or leads to a raise, carries a rule id that
\* getRuleDefinition finds in the catalog, and every error's ruleName is the
\* name the catalog holds for that id.
FindingsNameCatalogRules ==
    (CheckpointCall \/ AllCall) =>
        /\ \A stage \in stagesOf(call.op) :
               findingsAreCatalogued(stageChecks(stage, call.modules, call.taxonomies))
        /\ (CheckpointCall /\ call.outcome.kind = "returned") =>
               findingsAreCatalogued(call.outcome.result)
        /\ (AllCall /\ call.outcome.kind = "returned") =>
               \A k \in 1..Len(call.outcome.report.checkpoints) :
                   findingsAreCatalogued(call.outcome.report.checkpoints[k])

FindingsNameCatalogRulesSeen ==
    /\ CheckpointCall
    /\ call.stage = "build"
    /\ call.outcome.kind = "returned"
    /\ Len(call.outcome.result.errors) = 1
    /\ call.outcome.result.errors[1].ruleName = "Compound type taxonomy required"
    /\ Len(call.outcome.result.warnings) = 1

stageOrder == <<"map", "build", "export">>

\* The places in the stage order whose stage finds an error in the input.
failingPlaces(modules, taxonomies) ==
    {k \in 1..Len(stageOrder) : errorCount(stageOrder[k], modules, taxonomies) > 0}

\* C27: under strictness 'strict' validateAll raises at the first stage, in
\* the order map, build, export, that finds an error, naming that stage, and
\* returns no report then; so every report it returns under 'strict' has all
\* three checkpoints, isValid = true and failed = 0.
StrictValidateAllStopsAtFirstError ==
    (AllCall /\ config.strictness = "strict") =>
        LET failing == failingPlaces(call.modules, call.taxonomies)
        IN  IF failing = {}
            THEN /\ call.outcome.kind = "returned"
                 /\ call.outcome.report.isValid
                 /\ call.outcome.report.failed = 0
                 /\ Len(call.outcome.report.checkpoints) = Len(stageOrder)
            ELSE /\ call.outcome.kind = "thrown"
                 /\ startsWith(call.outcome.message,
                        "Validation failed at " \o stageOrder[least(failing)] \o " stage ")

StrictValidateAllStopsAtFirstErrorSeen ==
    /\ AllCall
    /\ config.strictness = "strict"
    /\ failingPlaces(call.modules, call.taxonomies) = {2}
    /\ call.outcome.kind = "thrown"
    /\ startsWith(call.outcome.message, "Validation failed at build stage with 1 errors.")

DomainNames == {KGL_NODES[i].handle : i \in {j \in 1..Len(KGL_NODES) : KGL_NODES[j].category = "Domain"}}

\* The taxonomy handles of the Domain nodes and of the compounds.
domainAndCompoundTaxonomies ==
    {D \o "_type" : D \in DomainNames} \cup {C \o "_type" : C \in KGL_COMPOUND_HANDLES_SET}

\* C28: for every non-Domain node X other than "type", X_type is both a
\* generated compound and a type taxonomy and validateHandle reports it as
\* L2_compound; no node handle is in the compound set or in the taxonomy
\* set; and validateHandle reports L2_taxonomy only for the taxonomies of
\* Domain nodes and of compounds.
NodeTypeHandlesAreCompounds ==
    /\ Loaded =>
        /\ \A X \in EligibleHandles \ {"type"} :
               /\ combined(X, "type") \in KGL_COMPOUND_HANDLES_SET
               /\ combined(X, "type") \in KGL_TYPE_TAXONOMIES_SET
               /\ validateHandle(combined(X, "type")) = ValidL2Compound
        /\ CANONICAL_NODES_SET \cap KGL_COMPOUND_HANDLES_SET = {}
        /\ CANONICAL_NODES_SET \cap KGL_TYPE_TAXONOMIES_SET = {}
        /\ \A h \in KGL_TYPE_TAXONOMIES_SET :
               validateHandle(h) = ValidL2Taxonomy <=> h \in domainAndCompoundTaxonomies
    /\ (HandleCall /\ call.result = ValidL2Taxonomy) =>
           call.handle \in domainAndCompoundTaxonomies

NodeTypeHandlesAreCompoundsSeen ==
    /\ HandleCall
    /\ call.handle = "person_type"
    /\ call.result = ValidL2Compound
    /\ "person_type" \in KGL_TYPE_TAXONOMIES_SET
    /\ validateHandle("kompas_type") = ValidL2Taxonomy
    /\ validateHandle("person_case_type") = ValidL2Taxonomy

nodePairs == {combined(p[1], p[2]) : p \in CANONICAL_NODES_SET \X CANONICAL_NODES_SET}

\* A single node, a pair of nodes, or a pair of nodes followed by "_type".
shortForms == CANONICAL_NODES_SET \cup nodePairs \cup {combined(p, "type") : p \in nodePairs}

ruleDataExamples ==
    {"person_case_status", "person_condition_status", "case_event_status",
     "case_event_status_type"}

\* C29: every handle that validateHandle accepts and that does not contain
\* "_type_" is a single node, a pair of nodes or a pair followed by "_type",
\* with at most two underscores; so a handle of three or more node segments
\* without "_type_" that is not such a pair with "_type" is rejected, as are
\* the handles the rule data gives as correct examples.
LongHandlesAreRejected ==
    /\ Loaded =>
           \A h \in CANONICAL_NODES_SET \cup KGL_COMPOUND_HANDLES_SET
                        \cup KGL_TYPE_TAXONOMIES_SET :
               /\ validateHandle(h).isValid
               /\ ~includes(h, "_type_") =>
                      countUnderscores(h) <= 2 /\ h \in shortForms
    /\ HandleCall =>
           /\ (call.result.isValid /\ ~includes(call.handle, "_type_")) =>
                  /\ call.handle \in shortForms
                  /\ countUnderscores(call.handle) <= 2
                  /\ \/ call.handle \in CANONICAL_NODES_SET
                     \/ call.handle \in KGL_COMPOUND_HANDLES_SET
                     \/ call.handle \in KGL_TYPE_TAXONOMIES_SET
           /\ call.handle \in ruleDataExamples => ~call.result.isValid

LongHandlesAreRejectedSeen ==
    /\ HandleCall
    /\ call.handle = "case_event_status_type"
    /\ ~call.result.isValid
    /\ validateHandle("case_event").isValid
    /\ validateHandle("event_status_type").isValid

\* The configuration with nothing but its strictness.
strictnessOnly == [strictness |-> config.strictness]

skipsRule(ruleId) == "skipRules" \in DOMAIN config /\ ruleId \in Range(config.skipRules)

disablesCategoryOf(ruleId) ==
    /\ "enabledCategories" \in DOMAIN config
    /\ getRuleDefinition(ruleId).result.category \notin Range(config.enabledCategories)

\* The rule whose errors a stage produces.
ruleOf(stage) == IF stage = "map" THEN "R06" ELSE "T01"

emits(outcome, ruleId) ==
    \E k \in 1..Len(outcome.result.errors) : outcome.result.errors[k].ruleId = ruleId

\* C30: enabledCategories and skipRules have no effect on validation: the
\* outcome of validateCheckpoint and of validateAll (errors, warnings, passed
\* flag, raise or return) is the one the same call has in the state that
\* holds only the strictness; in particular the R06 and T01 errors are
\* still produced when the rule is listed in skipRules or its category is
\* not among enabledCategories.
ExtraConfigurationHasNoEffect ==
    /\ CheckpointCall =>
           /\ call.outcome = validateCheckpoint(call.stage, call.modules,
                                                call.taxonomies, strictnessOnly.strictness)
           /\ (/\ errorCount(call.stage, call.modules, call.taxonomies) > 0
               /\ skipsRule(ruleOf(call.stage)) \/ disablesCategoryOf(ruleOf(call.stage))) =>
                  IF config.strictness = "strict"
                  THEN call.outcome.kind = "thrown"
                  ELSE /\ ~call.outcome.result.passed
                       /\ emits(call.outcome, ruleOf(call.stage))
    /\ AllCall =>
           call.outcome = validateAll(call.modules, call.taxonomies,
                                      strictnessOnly.strictness)

ExtraConfigurationHasNoEffectSeen ==
    /\ CheckpointCall
    /\ call.stage = "build"
    /\ skipsRule("T01")
    /\ disablesCategoryOf("T01")
    /\ config.strictness = "warn"
    /\ emits(call.outcome, "T01")
    /\ call.outcome.log # <<>>

====
